---- MODULE Spec2Model ----
(***************************************************************************)
(* Private Repo Loader: the sync routine (loader.py), the polling-interval *)
(* function and the coordinator's update cycle (coordinator.py), the setup *)
(* and unload of config entries with their services (__init__.py), the     *)
(* update entity (update.py), the GitHub API helpers (github_api.py) and   *)
(* the config flow (config_flow.py).                                       *)
(*                                                                         *)
(* Conventions.  An optional value (Python's `x | None`) is a sequence of  *)
(* length at most one: None is <<>> and a present value v is <<v>>.  A     *)
(* text (URL, slug, error text) is a sequence of tokens; substring tests   *)
(* of the source are tests on tokens.  Times are whole seconds.            *)
(***************************************************************************)
EXTENDS Integers, Sequences, FiniteSets, TLC

VARIABLES
    pollLast,   \* calculate_poll_interval: argument last_changed (optional time)
    pollBase,   \* calculate_poll_interval: argument base_interval (minutes)
    pollOut,    \* optional record [now, interval]: the clock read and the value returned
    errText,    \* _parse_git_error: argument error_str
    errOut,     \* optional record [error_type, message]: the tuple returned
    cfg,        \* the configuration dict a sync is called with (built from the config entry)
    upstream,   \* the head commit of the upstream branch: [sha, tree]
    staging,    \* <config>/.private_repo_loader/<slug>: absent, a plain directory, or a clone
    dest,       \* <config>/custom_components: folder name -> set of file names
    last,       \* optional record of the most recent sync_repo_detailed call
    running,    \* _async_update_data executions waiting for their executor job, by trigger
    coord,      \* the coordinator: last_changed, last_commit_sha, base, update_interval, data
    stored,     \* entry.data[CONF_LAST_CHANGED]: optional ISO text
    clock,      \* datetime.now(), in seconds
    coordLast,  \* record of the construction or the most recent update of the coordinator
    hass,       \* the host: config entries of the domain, services, entities, notifications
    hostLast,   \* optional record of the most recent setup or unload of an entry
    entity,     \* RepoUpdateEntity: _pending_update, _installed_version, _latest_version
    entityData, \* coordinator.data as the update entity reads it: optional dict
    restarts,   \* number of homeassistant.restart calls made by the update entity
    entityLast, \* optional record of the most recent coordinator update or install
    apiIn,      \* validate_token / validate_repo_access: the call and what the API answers
    apiOut,     \* optional record [result, requests]: the result and the requests sent
    flow,       \* FlowHandler: the result of its last step, _token, _available_repos, _username
    uniqueIds,  \* the unique ids of the config entries of the domain
    rejected,   \* the tokens whose latest validate_token result in this flow was invalid
    flowLast,   \* optional record of the most recent step of the flow
    urlIn,      \* parse_github_url: the argument, as the parts it is written from
    urlOut,     \* optional value returned by parse_github_url (itself optional)
    pagesIn,    \* list_user_repos: the token and what the API answers for each page
    reposOut,   \* optional record [result, requests]: the list returned, the requests sent
    repoEntries, \* the config entries of the domain: cfg, upstream tree, staging clone, job
    components  \* <config>/custom_components as the entries share it: folder -> files

pollVars == <<pollLast, pollBase, pollOut>>
parseVars == <<errText, errOut>>
worldVars == <<cfg, upstream, staging, dest>>
syncVars == <<cfg, upstream, staging, dest, last>>
coordVars == <<running, coord, stored, clock, coordLast>>
hostVars == <<hass, hostLast>>
entityVars == <<entity, entityData, restarts, entityLast>>
apiVars == <<apiIn, apiOut>>
flowVars == <<flow, uniqueIds, rejected, flowLast>>
urlVars == <<urlIn, urlOut>>
reposVars == <<pagesIn, reposOut>>
entriesVars == <<repoEntries, components>>
extVars == <<urlVars, reposVars, entriesVars>>
uiVars == <<hostVars, entityVars, apiVars, flowVars, extVars>>
vars ==
    <<pollLast, pollBase, pollOut, errText, errOut, cfg, upstream, staging, dest, last,
      running, coord, stored, clock, coordLast, hass, hostLast,
      entity, entityData, restarts, entityLast, apiIn, apiOut,
      flow, uniqueIds, rejected, flowLast, urlIn, urlOut, pagesIn, reposOut,
      repoEntries, components>>

None == <<>>
Some(v) == <<v>>
Val(o) == o[1]

(***************************************************************************)
(* const.py                                                                *)
(***************************************************************************)
DEFAULT_POLL_INTERVAL == 1
POLL_INTERVAL_1_DAY == 5
POLL_INTERVAL_1_WEEK == 30
POLL_INTERVAL_1_MONTH == 60
THRESHOLD_1_DAY == 24 * 60 * 60
THRESHOLD_1_WEEK == 7 * 24 * 60 * 60
THRESHOLD_1_MONTH == 30 * 24 * 60 * 60

\* The options form accepts a base interval of 1..60 minutes.
MAX_POLL_INTERVAL == 60

(***************************************************************************)
(* coordinator.py: calculate_poll_interval.  `now` is the value read from  *)
(* datetime.now(); time_since_change is (now - last_changed) in seconds.   *)
(***************************************************************************)
AtLeastOpen(elapsed, threshold) == elapsed > threshold

AtLeast(elapsed, threshold) == elapsed >= threshold

calculate_poll_interval(last_changed, base_interval, now) ==
    IF last_changed = None
    THEN base_interval
    ELSE LET time_since_change == now - Val(last_changed)
         IN  IF AtLeast(time_since_change, THRESHOLD_1_MONTH) THEN POLL_INTERVAL_1_MONTH
             ELSE IF AtLeast(time_since_change, THRESHOLD_1_WEEK) THEN POLL_INTERVAL_1_WEEK
             ELSE IF AtLeast(time_since_change, THRESHOLD_1_DAY) THEN POLL_INTERVAL_1_DAY
             ELSE base_interval

(***************************************************************************)
(* loader.py: _parse_git_error.  An error text is a sequence of phrases;   *)
(* `p in error_lower` holds when some phrase of the text, lower-cased, is  *)
(* p, and `p in error_str` when some phrase is p as written.               *)
(***************************************************************************)
Phrases ==
    { "Authentication failed", "invalid credentials", "401", "Unauthorized",
      "403", "Forbidden", "404", "not found",
      "Could not read from remote", "remote hung up", "connection refused",
      "does not appear to be a git repository", "fatal:", "Some random error" }

\* str.lower() on each phrase of the vocabulary
LowerPhrase(p) ==
    CASE p = "Authentication failed" -> "authentication failed"
      [] p = "Unauthorized" -> "unauthorized"
      [] p = "Forbidden" -> "forbidden"
      [] p = "Could not read from remote" -> "could not read from remote"
      [] p = "Some random error" -> "some random error"
      [] OTHER -> p

Lower(text) == [i \in 1..Len(text) |-> LowerPhrase(text[i])]

Contains(text, p) == \E i \in 1..Len(text) : text[i] = p

MSG_AUTH == "Authentication failed. Please check your Personal Access Token (PAT)."
MSG_UNAUTHORIZED == "Unauthorized. Your PAT may be invalid or expired."
MSG_PERMISSION == "Permission denied. Ensure your PAT has 'repo' scope for private repos."
MSG_NOT_FOUND == "Repository not found. Check the URL or ensure your PAT has access."
MSG_NETWORK == "Network error connecting to GitHub. Please check your connection."
MSG_NO_REPO == "Repository not found or no access. Verify URL and PAT permissions."

ParsedError(error_type, message) == [error_type |-> error_type, message |-> message]

\* A variant that tests the 403 rule before the 401 rule.
_parse_git_error_403_first(error_str) ==
    LET error_lower == Lower(error_str)
    IN  IF Contains(error_lower, "authentication failed")
           \/ Contains(error_lower, "invalid credentials")
        THEN ParsedError("auth", <<MSG_AUTH>>)
        ELSE IF Contains(error_str, "403") \/ Contains(error_lower, "forbidden")
        THEN ParsedError("permission", <<MSG_PERMISSION>>)
        ELSE IF Contains(error_str, "401") \/ Contains(error_lower, "unauthorized")
        THEN ParsedError("auth", <<MSG_UNAUTHORIZED>>)
        ELSE IF Contains(error_str, "404") \/ Contains(error_lower, "not found")
        THEN ParsedError("not_found", <<MSG_NOT_FOUND>>)
        ELSE IF Contains(error_lower, "could not read from remote")
                \/ Contains(error_lower, "remote hung up")
                \/ Contains(error_lower, "connection refused")
        THEN ParsedError("network", <<MSG_NETWORK>>)
        ELSE IF Contains(error_lower, "does not appear to be a git repository")
        THEN ParsedError("not_found", <<MSG_NO_REPO>>)
        ELSE ParsedError("unknown", error_str)

\* The user message is a text: a fixed one-phrase text for a matched rule,
\* the error text itself when no rule matches.
_parse_git_error(error_str) ==
    LET error_lower == Lower(error_str)
    IN  IF Contains(error_lower, "authentication failed")
           \/ Contains(error_lower, "invalid credentials")
        THEN ParsedError("auth", <<MSG_AUTH>>)
        ELSE IF Contains(error_str, "401") \/ Contains(error_lower, "unauthorized")
        THEN ParsedError("auth", <<MSG_UNAUTHORIZED>>)
        ELSE IF Contains(error_str, "403") \/ Contains(error_lower, "forbidden")
        THEN ParsedError("permission", <<MSG_PERMISSION>>)
        ELSE IF Contains(error_str, "404") \/ Contains(error_lower, "not found")
        THEN ParsedError("not_found", <<MSG_NOT_FOUND>>)
        ELSE IF Contains(error_lower, "could not read from remote")
                \/ Contains(error_lower, "remote hung up")
                \/ Contains(error_lower, "connection refused")
        THEN ParsedError("network", <<MSG_NETWORK>>)
        ELSE IF Contains(error_lower, "does not appear to be a git repository")
        THEN ParsedError("not_found", <<MSG_NO_REPO>>)
        ELSE ParsedError("unknown", error_str)

(***************************************************************************)
(* Texts as token sequences: str.startswith, str.replace, str.rstrip,      *)
(* str.split(sep)[-1] and str.strip as loader.py uses them.                *)
(***************************************************************************)
HTTPS_PREFIX == <<"https:", "/", "/">>
FILE_PREFIX == <<"file:", "/", "/">>

startswith(s, prefix) == Len(s) >= Len(prefix) /\ SubSeq(s, 1, Len(prefix)) = prefix

RECURSIVE replace(_, _, _)
replace(s, old, new) ==
    IF Len(s) < Len(old) THEN s
    ELSE IF startswith(s, old)
         THEN new \o replace(SubSeq(s, Len(old) + 1, Len(s)), old, new)
         ELSE <<Head(s)>> \o replace(Tail(s), old, new)

RECURSIVE rstrip(_, _)
rstrip(s, chars) ==
    IF s # <<>> /\ s[Len(s)] \in chars THEN rstrip(SubSeq(s, 1, Len(s) - 1), chars) ELSE s

RECURSIVE lstrip(_, _)
lstrip(s, chars) ==
    IF s # <<>> /\ Head(s) \in chars THEN lstrip(Tail(s), chars) ELSE s

strip(s) == lstrip(rstrip(s, {" "}), {" "})

\* s.split(sep)[-1]: what follows the last separator, the whole text when there is none
last_part(s, sep) ==
    LET at == {i \in 1..Len(s) : s[i] = sep}
    IN  IF at = {} THEN s
        ELSE SubSeq(s, (CHOOSE i \in at : \A j \in at : j <= i) + 1, Len(s))

\* dict.get(key, default): a missing key is None
Get(field, default) == IF field = None THEN default ELSE Val(field)

\* _auth_url raises ValueError for a URL that is not https, and otherwise
\* puts the token in front of the host of every https:// in the URL.
_auth_url(url, token) ==
    IF ~startswith(url, HTTPS_PREFIX)
    THEN [ok |-> FALSE, exc |-> <<"Only https clone URLs are supported">>]
    ELSE [ok |-> TRUE,
          value |-> IF token # <<>>
                    THEN replace(url, HTTPS_PREFIX, HTTPS_PREFIX \o token \o <<"@">>)
                    ELSE url]

(***************************************************************************)
(* The repository's content.  A tree is what a checkout of a commit puts   *)
(* in the working directory: cc maps each folder under custom_components/  *)
(* to its files, root is the set of entries at the top of the repository.  *)
(* Folder names and slugs are texts.                                       *)
(***************************************************************************)
SLUG == <<"repo">>
INTEGRATION == {"manifest.json", "__init__.py"}
NoFolders == [n \in {} |-> {}]

TREE_STD == [cc |-> (SLUG :> INTEGRATION), root |-> {".git", "README.md"}]
TREE_STD_NEW ==
    [cc |-> (SLUG :> (INTEGRATION \cup {"new_file.py"})), root |-> {".git", "README.md"}]
TREE_OTHER == [cc |-> (<<"testrepo">> :> INTEGRATION), root |-> {".git", "README.md"}]
TREE_FLAT ==
    [cc |-> NoFolders, root |-> {".git", "README.md"} \cup INTEGRATION \cup {"new_file.py"}]
TREE_FLAT_LESS == [cc |-> NoFolders, root |-> {".git", "README.md"} \cup INTEGRATION]
TREE_NONE == [cc |-> NoFolders, root |-> {".git", "README.md"}]

Trees == {TREE_STD, TREE_STD_NEW, TREE_OTHER, TREE_FLAT, TREE_FLAT_LESS, TREE_NONE}

FolderNames == UNION {DOMAIN t.cc : t \in Trees} \cup {SLUG}

(***************************************************************************)
(* loader.py: _find_integration_in_repo.  `first` stands for the order of  *)
(* Path.iterdir(), which the file system chooses: when several folders     *)
(* qualify and none is named after the slug, integrations[0] is `first`    *)
(* when it qualifies, and any fixed qualifying folder otherwise.           *)
(* The result is [kind, name]: kind "cc" is custom_components/<name>,      *)
(* kind "root" is the repository root, kind "none" is None.                *)
(***************************************************************************)
Found(kind, name) == [kind |-> kind, name |-> name]

_find_integration_in_repo(tree, slug, first) ==
    LET integrations ==
            {d \in DOMAIN tree.cc :
                ~startswith(d, <<".">>) /\ "manifest.json" \in tree.cc[d]}
        flat ==
            IF "manifest.json" \in tree.root /\ "__init__.py" \in tree.root
            THEN Found("root", <<>>)
            ELSE Found("none", <<>>)
    IN  IF DOMAIN tree.cc # {}
        THEN IF slug \in DOMAIN tree.cc /\ "manifest.json" \in tree.cc[slug]
             THEN Found("cc", slug)
             ELSE IF Cardinality(integrations) = 1
             THEN Found("cc", CHOOSE d \in integrations : TRUE)
             ELSE IF Cardinality(integrations) > 1
             THEN IF slug \in integrations THEN Found("cc", slug)
                  ELSE IF first \in integrations THEN Found("cc", first)
                  ELSE Found("cc", CHOOSE d \in integrations : TRUE)
             ELSE flat
        ELSE flat

(***************************************************************************)
(* loader.py: _sync_integration_files.  `copy` is the outcome of the file  *)
(* operations: "ok"; "fail_first", the first of them raises and nothing    *)
(* was written; "fail_copy", the destination was prepared (removed in the  *)
(* folder layout, created in the flat layout) and the copy then raises.    *)
(***************************************************************************)
EXCLUDE_PATTERNS == {".git", ".github", ".gitignore", "README.md", "LICENSE"}

Copied(raised, d) == [raised |-> raised, dest |-> d]

Without(d, name) == [n \in DOMAIN d \ {name} |-> d[n]]

With(d, name, files) == [n \in DOMAIN d \cup {name} |-> IF n = name THEN files ELSE d[n]]

Existing(d, name) == IF name \in DOMAIN d THEN d[name] ELSE {}

\* is_flat_structure is False: rmtree(dest) when it exists, then copytree
CopyFolder(files, d, name, copy) ==
    IF copy = "fail_first" THEN Copied(TRUE, d)
    ELSE IF copy = "fail_copy" THEN Copied(TRUE, Without(d, name))
    ELSE Copied(FALSE, With(d, name, files))

\* is_flat_structure is True: mkdir(exist_ok), then each entry not excluded
\* is copied over what is there
CopyFlat(entries, d, name, copy) ==
    IF copy = "fail_first" THEN Copied(TRUE, d)
    ELSE IF copy = "fail_copy" THEN Copied(TRUE, With(d, name, Existing(d, name)))
    ELSE Copied(FALSE, With(d, name, Existing(d, name) \cup (entries \ EXCLUDE_PATTERNS)))

_sync_integration_files(tree, source, d, name, is_flat_structure, copy) ==
    IF is_flat_structure
    THEN CopyFlat(tree.root, d, name, copy)
    ELSE CopyFolder(tree.cc[source.name], d, name, copy)

(***************************************************************************)
(* loader.py: SyncResult and the results sync_repo_detailed builds.        *)
(* commit_sha is the commit's position in the upstream history.            *)
(***************************************************************************)
SyncResult(status, has_changes, commit_sha, error, error_type) ==
    [status |-> status, has_changes |-> has_changes, commit_sha |-> commit_sha,
     error |-> error, error_type |-> error_type]

\* the dataclass defaults: has_changes False, the rest None
Skipped(error, error_type) ==
    SyncResult("skipped", FALSE, None, Some(error), Some(error_type))

\* A variant that files the empty URL under the catch-all category.
ResultEmptyUrlUnknown == Skipped(<<"Repository URL is empty">>, "unknown")

ResultEmptyUrl == Skipped(<<"Repository URL is empty">>, "config")

ResultBadScheme == Skipped(<<"Repository URL must start with https://">>, "config")

ResultNoSlug == Skipped(<<"Could not determine slug from URL">>, "config")

ResultAuthUrl(exc) == Skipped(exc, "config")

\* A variant that reports a missing integration under a status of its own.
ResultNoIntegrationInvalid ==
    SyncResult("invalid", FALSE, None,
               Some(<<"Repository does not contain a valid custom component. ",
                      "Expected custom_components/<integration>/ structure.">>),
               Some("structure"))

ResultNoIntegration ==
    Skipped(<<"Repository does not contain a valid custom component. ",
              "Expected custom_components/<integration>/ structure.">>,
            "structure")

ResultCloned(commit_after) == SyncResult("cloned", TRUE, Some(commit_after), None, None)

\* A variant that forgets to flag the change.
ResultUpdatedNoFlag(commit_after) ==
    SyncResult("updated", FALSE, Some(commit_after), None, None)

ResultUpdated(commit_after) == SyncResult("updated", TRUE, Some(commit_after), None, None)

\* A variant that leaves the commit out when nothing changed.
ResultUnchangedNoSha(commit_after) == SyncResult("unchanged", FALSE, None, None, None)

ResultUnchanged(commit_after) ==
    SyncResult("unchanged", FALSE, Some(commit_after), None, None)

\* A variant whose result for an exception carries no error_type.
ResultExceptionNoType(error_str) ==
    SyncResult("skipped", FALSE, None, Some(_parse_git_error(error_str).message), None)

\* both except clauses: str(exc) goes through _parse_git_error
ResultException(error_str) ==
    LET parsed == _parse_git_error(error_str)
    IN  Skipped(parsed.message, parsed.error_type)

(***************************************************************************)
(* The staging clone and the git commands of loader.py.  A commit is       *)
(* [sha, tree]; shas number the upstream commits in order.  A clone has a  *)
(* head commit and the URL of its remote.  Its remote-tracking commit      *)
(* origin/<branch> is not kept: the code reads it only in `checkout -B`,   *)
(* right after the fetch of the same call has set it to the upstream head. *)
(* The upstream history is linear, so a fast-forward pull that succeeds    *)
(* ends at the upstream head.                                              *)
(*                                                                         *)
(* An oracle `o` fixes what the environment does during one call:          *)
(*   fail      the operation that raises, if the call gets to it           *)
(*   fallback  whether `git checkout <branch>` raises GitCommandError      *)
(*   err       the text of the exception raised                            *)
(*   first     the folder Path.iterdir() lists first                       *)
(* A call's trace `ops` lists the git commands and file operations it      *)
(* attempted, each with whether it succeeded.                              *)
(***************************************************************************)
Commit(sha, tree) == [sha |-> sha, tree |-> tree]
NO_COMMIT == Commit(0, TREE_NONE)

ABSENT == [kind |-> "absent", head |-> NO_COMMIT, url |-> <<>>]
PLAIN_DIR == [kind |-> "dir", head |-> NO_COMMIT, url |-> <<>>]
Clone(commit, url) == [kind |-> "clone", head |-> commit, url |-> url]

Cmd(op, ok) == [op |-> op, ok |-> ok]

Git(raised, text, st, ops, is_new_clone, commit_before, commit_after) ==
    [raised |-> raised, text |-> text, staging |-> st, ops |-> ops,
     is_new_clone |-> is_new_clone, commit_before |-> commit_before,
     commit_after |-> commit_after]

Raised(text, st, ops) == Git(TRUE, text, st, ops, FALSE, None, 0)

\* _get_current_commit: repo.head.commit.hexsha
_get_current_commit(repo) == repo.head.sha

\* str(GitCommandError).  The exception holds the status line, the command
\* line and what git printed; the command line of a clone holds the URL that
\* was handed to git.  Nothing in loader.py rewrites the text: whether the
\* credential in it is masked is up to the GitPython and git installed, so
\* a failed command may also carry the URL as written.
GIT_CMD_FAILED == <<"Cmd('git') failed due to: exit code(128)">>

command_error_text(err, url) ==
    IF err = GIT_CMD_FAILED THEN err \o <<"cmdline:", "git", "clone">> \o url ELSE err

\* A variant that tries the clone a second time when the first attempt fails.
clone_from_retry(auth, up, o, ops) ==
    IF o.fail = "clone"
    THEN Raised(command_error_text(o.err, auth), ABSENT, ops \o <<Cmd("clone", FALSE), Cmd("clone", FALSE)>>)
    ELSE LET repo == Clone(up, auth)
         IN  Git(FALSE, <<>>, repo, ops \o <<Cmd("clone", TRUE)>>,
                 TRUE, None, _get_current_commit(repo))

\* git.Repo.clone_from(auth, staging_path, branch=branch); is_new_clone = True;
\* commit_before = None; commit_after = _get_current_commit(repo).
\* A clone that fails leaves no directory behind.
clone_from(auth, up, o, ops) ==
    IF o.fail = "clone"
    THEN Raised(command_error_text(o.err, auth), ABSENT, ops \o <<Cmd("clone", FALSE)>>)
    ELSE LET repo == Clone(up, auth)
         IN  Git(FALSE, <<>>, repo, ops \o <<Cmd("clone", TRUE)>>,
                 TRUE, None, _get_current_commit(repo))

\* InvalidGitRepositoryError: _move_aside(staging_path), then clone
move_aside_and_clone(st, auth, up, o) ==
    IF o.fail = "move"
    THEN Raised(o.err, st, <<Cmd("move_aside", FALSE)>>)
    ELSE clone_from(auth, up, o, <<Cmd("move_aside", TRUE)>>)

\* the existing clone: set_url, fetch --all --prune, checkout (with the
\* checkout -B fallback), pull --ff-only
update_clone(st, auth, up, o) ==
    LET commit_before == _get_current_commit(st)
        repo1 == [st EXCEPT !.url = auth]
        origin == up
        plain == ~o.fallback /\ o.fail # "checkout"
        checked == IF plain THEN repo1 ELSE [repo1 EXCEPT !.head = origin]
        ops_fetch == <<Cmd("fetch", TRUE)>>
        ops_checkout ==
            IF plain THEN ops_fetch \o <<Cmd("checkout", TRUE)>>
            ELSE ops_fetch \o <<Cmd("checkout", FALSE), Cmd("checkout_B", TRUE)>>
        pulled == [checked EXCEPT !.head = up]
    IN  IF o.fail = "fetch"
        THEN Raised(o.err, repo1, <<Cmd("fetch", FALSE)>>)
        ELSE IF o.fail = "checkout"
        THEN Raised(o.err, repo1,
                    ops_fetch \o <<Cmd("checkout", FALSE), Cmd("checkout_B", FALSE)>>)
        ELSE IF o.fail = "pull"
        THEN Raised(o.err, checked, ops_checkout \o <<Cmd("pull", FALSE)>>)
        ELSE Git(FALSE, <<>>, pulled, ops_checkout \o <<Cmd("pull", TRUE)>>,
                 FALSE, Some(commit_before), _get_current_commit(pulled))

\* lines 310-343: which of the three paths runs
git_phase(st, auth, up, o) ==
    IF st.kind # "absent"
    THEN IF st.kind = "dir"
         THEN move_aside_and_clone(st, auth, up, o)
         ELSE update_clone(st, auth, up, o)
    ELSE clone_from(auth, up, o, <<>>)

(***************************************************************************)
(* loader.py: sync_repo_detailed.  The value is the call's outcome: the    *)
(* staging path and the custom_components folder after it, the SyncResult  *)
(* returned and the trace of the operations attempted.                     *)
(***************************************************************************)
Outcome(st, d, result, ops) == [staging |-> st, dest |-> d, result |-> result, ops |-> ops]

\* the fallback for a missing slug: the last path segment without ".git"
slug_from_url(url) == strip(replace(last_part(rstrip(url, {"/"}), "/"), <<".git">>, <<>>))

\* A variant that takes every sync of an existing clone for a change.
has_git_changes_always(commit_before, commit_after) == TRUE

\* commit_before != commit_after if commit_before else True
has_git_changes(commit_before, commit_after) ==
    IF commit_before # None THEN Val(commit_before) # commit_after ELSE TRUE

\* lines 345-409: find the integration, copy it when the commit changed
install_phase(git, slug, d, o) ==
    LET tree == git.staging.head.tree
        integration_source == _find_integration_in_repo(tree, slug, o.first)
        is_flat_structure == integration_source.kind = "root"
        integration_name == IF is_flat_structure THEN slug ELSE integration_source.name
        copy == IF o.fail \in {"fail_first", "fail_copy"} THEN o.fail ELSE "ok"
        copied == _sync_integration_files(tree, integration_source, d, integration_name,
                                          is_flat_structure, copy)
    IN  IF integration_source.kind = "none"
        THEN Outcome(git.staging, d, ResultNoIntegration, git.ops)
        ELSE IF has_git_changes(git.commit_before, git.commit_after)
        THEN IF copied.raised
             THEN Outcome(git.staging, copied.dest, ResultException(o.err),
                          git.ops \o <<Cmd("copy", FALSE)>>)
             ELSE Outcome(git.staging, copied.dest,
                          IF git.is_new_clone
                          THEN ResultCloned(git.commit_after)
                          ELSE ResultUpdated(git.commit_after),
                          git.ops \o <<Cmd("copy", TRUE)>>)
        ELSE Outcome(git.staging, d, ResultUnchanged(git.commit_after), git.ops)

sync_repo_detailed(st, d, up, c, o) ==
    LET url == Get(c.repository, <<>>)
        given == Get(c.slug, <<>>)
        slug == IF given = <<>> THEN slug_from_url(url) ELSE given
        token == Get(c.token, <<>>)
        auth == _auth_url(url, token)
        git == git_phase(st, auth.value, up, o)
    IN  IF url = <<>>
        THEN Outcome(st, d, ResultEmptyUrl, <<>>)
        ELSE IF ~startswith(url, HTTPS_PREFIX) /\ ~startswith(url, FILE_PREFIX)
        THEN Outcome(st, d, ResultBadScheme, <<>>)
        ELSE IF slug = <<>>
        THEN Outcome(st, d, ResultNoSlug, <<>>)
        ELSE IF ~auth.ok
        THEN Outcome(st, d, ResultAuthUrl(auth.exc), <<>>)
        ELSE IF git.raised
        THEN Outcome(git.staging, d, ResultException(git.text), git.ops)
        ELSE install_phase(git, slug, d, o)

\* sync_repo: `out` is the outcome of the sync_repo_detailed call it makes;
\* it returns the status alone
sync_repo(out) ==
    LET result == out.result
    IN  result.status

(***************************************************************************)
(* Inputs and bounds.                                                      *)
(***************************************************************************)
MaxCommits == 2
MaxErrLen == 2

URL_HTTPS == <<"https:", "/", "/", "github.com", "/", "owner", "/", "repo", ".git">>
URL_NO_NAME == <<"https:", "/", "/", ".git">>
URL_FILE == <<"file:", "/", "/", "/", "tmp", "/", "repo">>
URL_SSH == <<"git@github.com:", "owner", "/", "repo", ".git">>

Config(repository, slug, token) ==
    [repository |-> repository, slug |-> slug, branch |-> Some("main"), token |-> token]

TOKEN == <<"ghp_secret">>

\* a missing, an empty, an ssh and a file URL; the https URL with and without
\* slug and token; an https URL that has no name to derive a slug from
Cfgs ==
    { Config(None, Some(SLUG), Some(<<>>)),
      Config(Some(<<>>), Some(SLUG), Some(TOKEN)),
      Config(Some(URL_SSH), Some(SLUG), Some(<<>>)),
      Config(Some(URL_FILE), Some(SLUG), Some(<<>>)),
      Config(Some(URL_HTTPS), Some(SLUG), Some(TOKEN)),
      Config(Some(URL_HTTPS), None, Some(<<>>)),
      Config(Some(URL_NO_NAME), None, Some(TOKEN)),
      Config(Some(URL_NO_NAME), Some(<<>>), None) }

GitErrors == {<<"Some random error">>, <<"fatal:", "Authentication failed">>}

FailPoints == {"move", "clone", "fetch", "checkout", "pull", "fail_first", "fail_copy"}

Oracle(fail, fallback, err, first) ==
    [fail |-> fail, fallback |-> fallback, err |-> err, first |-> first]

\* every operation succeeds, or one operation raises; `git checkout` may
\* raise and be recovered by `checkout -B` in a call that fails later or not
\* at all; a file operation may raise an exception whose text is empty; a
\* clone may fail with the text of the failed command
Oracles ==
    {Oracle("none", fb, <<"Some random error">>, f) : fb \in BOOLEAN, f \in FolderNames}
    \cup {Oracle(p, FALSE, e, SLUG) : p \in FailPoints, e \in GitErrors}
    \cup {Oracle(p, TRUE, e, SLUG) : p \in {"pull", "fail_first"}, e \in GitErrors}
    \cup {Oracle("fail_first", FALSE, <<>>, SLUG)}
    \cup {Oracle("clone", FALSE, GIT_CMD_FAILED, SLUG)}

RECURSIVE TextsUpTo(_)
TextsUpTo(n) ==
    IF n = 0 THEN {<<>>}
    ELSE LET shorter == TextsUpTo(n - 1)
         IN  shorter \cup {Append(t, p) : t \in shorter, p \in Phrases}

ErrTexts == TextsUpTo(MaxErrLen)

\* instants around each threshold, seen from a change at second 0 or 1
Instants ==
    {0, 1, 3600}
    \cup UNION {{th - 1, th, th + 1, th + 2} :
                  th \in {THRESHOLD_1_DAY, THRESHOLD_1_WEEK, THRESHOLD_1_MONTH}}

ChangeTimes == {None, Some(0), Some(1)}

MaxForce == 1
MaxEntries == 2
MaxInstalls == 2

\* the entry the coordinator runs for: an https URL with a slug and a token
CoordCfgs == {Config(Some(URL_HTTPS), Some(SLUG), Some(TOKEN))}

\* the commits pushed while the coordinator runs: the integration, changed or not
CoordTrees == {TREE_STD, TREE_STD_NEW}

\* a sync run by the coordinator succeeds, or its clone, fetch or copy raises
CoordOracles ==
    {Oracle(p, FALSE, <<"Some random error">>, SLUG) : p \in {"none", "clone", "fetch", "fail_copy"}}

(***************************************************************************)
(* coordinator.py: PrivateRepoCoordinator.  A datetime is its number of    *)
(* seconds.  A text that may hold a date is a record: the ISO text of a    *)
(* datetime, the empty text, or a text that is no date.  The               *)
(* "last_changed" key of the data dict is an optional value: None when the *)
(* key is absent.                                                          *)
(***************************************************************************)
isoformat(t) == [kind |-> "iso", t |-> t]
EMPTY_TEXT == [kind |-> "empty", t |-> 0]
NOT_A_DATE == [kind |-> "other", t |-> 0]

\* datetime.fromisoformat: the datetime, or ValueError
fromisoformat(text) ==
    IF text.kind = "iso" THEN [ok |-> TRUE, value |-> text.t] ELSE [ok |-> FALSE, value |-> 0]

Coordinator(last_changed, last_commit_sha, base, update_interval, data) ==
    [last_changed |-> last_changed, last_commit_sha |-> last_commit_sha,
     base |-> base, update_interval |-> update_interval, data |-> data]

\* __init__: last_changed is read back from the entry, the interval follows
stored_last_changed(st) ==
    IF st # None /\ Val(st) # EMPTY_TEXT
    THEN LET parsed == fromisoformat(Val(st))
         IN  IF parsed.ok THEN Some(parsed.value) ELSE None
    ELSE None

coordinator_init_base(st, base, now) ==
    Coordinator(stored_last_changed(st), None, base, base, None)

coordinator_init(st, base, now) ==
    Coordinator(stored_last_changed(st), None, base,
                calculate_poll_interval(stored_last_changed(st), base, now), None)

\* what is recorded of the construction
Constructed(st, now) ==
    [kind |-> "init", now |-> now, result |-> None, data |-> None,
     before |-> [last_changed |-> None, stored |-> st]]

update_data_no_store(co, st, c, result, now) ==
    LET last_changed == IF result.has_changes THEN Some(now) ELSE co.last_changed
    IN  [coord |-> [co EXCEPT !.last_changed = last_changed,
                              !.update_interval =
                                  calculate_poll_interval(last_changed, co.base, now)],
         stored |-> st,
         data |-> [status |-> result.status, has_changes |-> result.has_changes,
                   commit_sha |-> result.commit_sha, last_checked |-> isoformat(now),
                   slug |-> Get(c.slug, <<>>), error |-> result.error,
                   last_changed |-> IF last_changed = None THEN None
                                    ELSE Some(isoformat(Val(last_changed)))]]

\* A variant that records a change at every update.
update_data_always_changed(co, st, c, result, now) ==
    [coord |-> [co EXCEPT !.last_changed = Some(now),
                          !.last_commit_sha = result.commit_sha,
                          !.update_interval = calculate_poll_interval(Some(now), co.base, now)],
     stored |-> Some(isoformat(now)),
     data |-> [status |-> result.status, has_changes |-> result.has_changes,
               commit_sha |-> result.commit_sha, last_checked |-> isoformat(now),
               slug |-> Get(c.slug, <<>>), error |-> result.error,
               last_changed |-> Some(isoformat(now))]]

\* _async_update_data after the executor job has returned `result`: the new
\* coordinator fields, the value stored in the entry and the dict returned
update_data(co, st, c, result, now) ==
    LET last_changed == IF result.has_changes THEN Some(now) ELSE co.last_changed
        data ==
            [status |-> result.status, has_changes |-> result.has_changes,
             commit_sha |-> result.commit_sha, last_checked |-> isoformat(now),
             slug |-> Get(c.slug, <<>>), error |-> result.error,
             last_changed |-> IF last_changed = None THEN None
                              ELSE Some(isoformat(Val(last_changed)))]
    IN  [coord |-> [co EXCEPT !.last_changed = last_changed,
                              !.last_commit_sha =
                                  IF result.has_changes THEN result.commit_sha ELSE @,
                              !.update_interval =
                                  calculate_poll_interval(last_changed, co.base, now)],
         stored |-> IF result.has_changes THEN Some(isoformat(now)) ELSE st,
         data |-> data]

\* entry.data[CONF_LAST_CHANGED] when the coordinator is constructed: absent,
\* empty, no date, or the ISO text of second 0
StoredTexts == {None, Some(EMPTY_TEXT), Some(NOT_A_DATE), Some(isoformat(0))}

\* entry.options[CONF_POLL_INTERVAL]: absent, or the 10 minutes of the tests
Bases == {DEFAULT_POLL_INTERVAL, 10}

Thresholds == {THRESHOLD_1_DAY, THRESHOLD_1_WEEK, THRESHOLD_1_MONTH}

\* the results a sync hands to the coordinator, one or more of each status
SyncResults ==
    {ResultCloned(Some(1)), ResultUpdated(Some(2)), ResultUnchanged(Some(1)),
     ResultEmptyUrl, ResultException(<<"Some random error">>)}

(***************************************************************************)
(* __init__.py: setting up and unloading a config entry.  The host keeps,  *)
(* for each entry id of the domain, the state of the entry ("absent" when  *)
(* there is no such entry) and the entities added for it, the number of    *)
(* async_register calls made for each service since it was last removed,   *)
(* and the persistent notifications by notification id.                    *)
(***************************************************************************)
SERVICE_SYNC_NOW == "sync_now"
SERVICE_RELOAD_REPOS == "reload_repos"
Services == {SERVICE_SYNC_NOW, SERVICE_RELOAD_REPOS}

PLATFORMS == {"sensor"}

\* the entities the async_setup_entry of each platform module adds
platform_entities(platform) ==
    CASE platform = "sensor" -> {"status", "last_sync", "last_changed", "poll_interval"}
      [] platform = "button" -> {"sync", "restart"}
      [] platform = "update" -> {"update"}

async_forward_entry_setups(platforms) == UNION {platform_entities(p) : p \in platforms}

EntryIds == 1..MaxEntries

\* hass.config_entries.async_entries(DOMAIN)
async_entries(h) == {e \in EntryIds : h.entries[e] # "absent"}

has_service(h, name) == h.services[name] > 0

_async_register_services_always(h) ==
    [h EXCEPT !.services = [n \in Services |-> @[n] + 1]]

_async_register_services(h) ==
    IF has_service(h, SERVICE_SYNC_NOW)
    THEN h
    ELSE [h EXCEPT !.services = [n \in Services |-> @[n] + 1]]

\* the outcomes of the first refresh: it raises, or the coordinator's data
\* has one of the four statuses
FirstRefresh == {"raised", "cloned", "updated", "unchanged", "skipped"}

async_setup_entry(h, entry, first) ==
    IF first = "raised"
    THEN h
    ELSE LET registered == _async_register_services(h)
             notified ==
                 IF first = "cloned" THEN {<<"restart", entry>>}
                 ELSE IF first = "updated" THEN {<<"updated", entry>>}
                 ELSE {}
         IN  [registered EXCEPT
                 !.entries[entry] = "loaded",
                 !.entities[entry] = async_forward_entry_setups(PLATFORMS),
                 !.notifications = @ \cup notified]

async_unload_entry_remove_always(h, entry, unload_ok) ==
    [h EXCEPT !.entries[entry] = IF unload_ok THEN "not_loaded" ELSE "failed_unload",
              !.entities[entry] = IF unload_ok THEN {} ELSE @,
              !.services = [n \in Services |-> 0]]

async_unload_entry(h, entry, unload_ok) ==
    [h EXCEPT !.entries[entry] = IF unload_ok THEN "not_loaded" ELSE "failed_unload",
              !.entities[entry] = IF unload_ok THEN {} ELSE @,
              !.services =
                  IF Cardinality(async_entries(h)) <= 1
                  THEN [n \in Services |-> 0]
                  ELSE @]

HostIdle ==
    /\ hass = [entries |-> [e \in EntryIds |-> "absent"],
               entities |-> [e \in EntryIds |-> {}],
               services |-> [n \in Services |-> 0],
               notifications |-> {}]
    /\ hostLast = None

(***************************************************************************)
(* github_api.py: validate_token and validate_repo_access.  What the API   *)
(* answers to the one GET is an outcome: aiohttp raises a ClientError      *)
(* (while connecting or while reading the body), or a response arrives     *)
(* with a status, the X-RateLimit-Remaining header (None when absent) and  *)
(* the login of its JSON body.                                             *)
(***************************************************************************)
GitHubValidationResult(valid, error, error_message, username, repo_info) ==
    [valid |-> valid, error |-> error, error_message |-> error_message,
     username |-> username, repo_info |-> repo_info]

Response(status, remaining, login) ==
    [raised |-> FALSE, status |-> status, remaining |-> remaining, login |-> login,
     exc |-> <<>>]

ClientError(exc) ==
    [raised |-> TRUE, status |-> 0, remaining |-> None, login |-> None, exc |-> exc]

\* response.headers.get("X-RateLimit-Remaining", "0") == "0"
rate_limited(response) == Get(response.remaining, <<"0">>) = <<"0">>

Invalid(error, error_message) ==
    GitHubValidationResult(FALSE, error, Some(error_message), None, None)

Answer(result, requests) == [result |-> result, requests |-> requests]

validate_token_403_permissions(token, o) ==
    IF token = <<>> THEN Answer(Invalid("invalid_token", <<"Token is empty">>), 0)
    ELSE IF o.raised THEN Answer(Invalid("network_error", o.exc), 1)
    ELSE IF o.status = 200
         THEN Answer(GitHubValidationResult(TRUE, "none", None, o.login, None), 1)
    ELSE IF o.status = 401
         THEN Answer(Invalid("invalid_token", <<"Invalid or expired token">>), 1)
    ELSE IF o.status = 403
         THEN Answer(Invalid("insufficient_permissions",
                             <<"Token has insufficient permissions">>), 1)
    ELSE Answer(Invalid("unknown", <<"Unexpected response: ", o.status>>), 1)

validate_token(token, o) ==
    IF token = <<>> THEN Answer(Invalid("invalid_token", <<"Token is empty">>), 0)
    ELSE IF o.raised THEN Answer(Invalid("network_error", o.exc), 1)
    ELSE IF o.status = 200
         THEN Answer(GitHubValidationResult(TRUE, "none", None, o.login, None), 1)
    ELSE IF o.status = 401
         THEN Answer(Invalid("invalid_token", <<"Invalid or expired token">>), 1)
    ELSE IF o.status = 403
         THEN IF rate_limited(o)
              THEN Answer(Invalid("rate_limited", <<"GitHub API rate limit exceeded">>), 1)
              ELSE Answer(Invalid("insufficient_permissions",
                                  <<"Token has insufficient permissions">>), 1)
    ELSE Answer(Invalid("unknown", <<"Unexpected response: ", o.status>>), 1)

validate_repo_access(token, owner, repo, o) ==
    IF o.raised THEN Answer(Invalid("network_error", o.exc), 1)
    ELSE IF o.status = 200
         THEN Answer(GitHubValidationResult(TRUE, "none", None, None, Some(owner \o <<"/">> \o repo)), 1)
    ELSE IF o.status = 401
         THEN Answer(Invalid("invalid_token", <<"Invalid or expired token">>), 1)
    ELSE IF o.status = 403
         THEN IF rate_limited(o)
              THEN Answer(Invalid("rate_limited", <<"GitHub API rate limit exceeded">>), 1)
              ELSE Answer(Invalid("insufficient_permissions",
                                  <<"Token does not have access to ">> \o owner
                                      \o <<"/">> \o repo), 1)
    ELSE IF o.status = 404
         THEN IF token # <<>>
              THEN Answer(Invalid("repo_not_found",
                                  <<"Repository ">> \o owner \o <<"/">> \o repo
                                      \o <<" not found or token lacks access">>), 1)
              ELSE Answer(Invalid("repo_not_found",
                                  <<"Repository ">> \o owner \o <<"/">> \o repo
                                      \o <<" not found">>), 1)
    ELSE Answer(Invalid("unknown", <<"Unexpected response: ", o.status>>), 1)

\* the answers of the API: a ClientError, or a response with one of these
\* statuses, with the rate-limit header absent, "0" or "42"
Statuses == {200, 401, 403, 404, 429, 500}

ApiOutcomes ==
    {ClientError(<<"Cannot connect to host">>)}
    \cup {Response(st, rem, Some(<<"octocat">>)) :
            st \in Statuses, rem \in {None, Some(<<"0">>), Some(<<"42">>)}}

ApiCall(fn, token, owner, repo, outcome) ==
    [fn |-> fn, token |-> token, owner |-> owner, repo |-> repo, outcome |-> outcome]

ApiIdle ==
    /\ apiIn = ApiCall("validate_token", <<>>, <<>>, <<>>, ClientError(<<>>))
    /\ apiOut = None

(***************************************************************************)
(* github_api.py: list_user_repos and parse_github_url.  `pages` gives,    *)
(* for each page number, what the API answers to the request for that      *)
(* page: an outcome whose `data` is the list of repositories of the page.  *)
(***************************************************************************)
PER_PAGE == 100
MAX_PAGES == 10

GitHubRepoInfo(owner, name) ==
    [full_name |-> owner \o <<"/">> \o name, name |-> name,
     clone_url |-> <<"https:", "/", "/", "github.com", "/">> \o owner \o <<"/">> \o name
                       \o <<".git">>,
     default_branch |-> <<"main">>]

Page(status, data) ==
    [raised |-> FALSE, status |-> status, remaining |-> None, login |-> None, exc |-> <<>>,
     data |-> data]

PageError(exc) ==
    [raised |-> TRUE, status |-> 0, remaining |-> None, login |-> None, exc |-> exc,
     data |-> <<>>]

\* A variant that never asks for a second page.
fetch_pages_first_only(pages, page, repos) ==
    IF pages[page].raised \/ pages[page].status # 200 THEN Answer(repos, page)
    ELSE Answer(repos \o pages[page].data, page)

RECURSIVE fetch_pages(_, _, _)
fetch_pages(pages, page, repos) ==
    LET o == pages[page]
    IN  IF o.raised \/ o.status # 200 \/ o.data = <<>>
        THEN Answer(repos, page)
        ELSE IF Len(o.data) < PER_PAGE \/ page + 1 > MAX_PAGES
             THEN Answer(repos \o o.data, page)
             ELSE fetch_pages(pages, page + 1, repos \o o.data)

list_user_repos(token, pages) ==
    IF token = <<>> THEN Answer(<<>>, 0) ELSE fetch_pages(pages, 1, <<>>)

\* str.split(sep)
RECURSIVE split(_, _)
split(s, sep) ==
    LET at == {i \in 1..Len(s) : s[i] = sep}
    IN  IF at = {} THEN <<s>>
        ELSE LET i == CHOOSE k \in at : \A j \in at : k <= j
             IN  <<SubSeq(s, 1, i - 1)>> \o split(SubSeq(s, i + 1, Len(s)), sep)

without_git_suffix_kept(path) == path

\* path[:-4] when path.endswith(".git")
without_git_suffix(path) ==
    IF path # <<>> /\ path[Len(path)] = ".git" THEN SubSeq(path, 1, Len(path) - 1) ELSE path

GITHUB_HTTPS == <<"https:", "/", "/", "github.com", "/">>
GITHUB_SSH == <<"git@github.com:">>

\* the (owner, repo) pair as an optional value
owner_repo(path) ==
    LET parts == split(path, "/")
    IN  IF Len(parts) >= 2 THEN Some(<<parts[1], parts[2]>>) ELSE None

parse_github_url(url) ==
    LET u == strip(url)
        https == owner_repo(without_git_suffix(
                     rstrip(SubSeq(u, Len(GITHUB_HTTPS) + 1, Len(u)), {"/"})))
        ssh == owner_repo(without_git_suffix(SubSeq(u, Len(GITHUB_SSH) + 1, Len(u))))
    IN  IF url = <<>> THEN None
        ELSE IF startswith(u, GITHUB_HTTPS) /\ https # None THEN https
        ELSE IF startswith(u, GITHUB_SSH) /\ ssh # None THEN ssh
        ELSE None

(***************************************************************************)
(* config_flow.py: FlowHandler.  A flow is the handler's fields together   *)
(* with the result of its last step: a form (step_id, errors, the          *)
(* error_detail placeholder), a created entry or an abort.  `errors` is    *)
(* the dict as a set of <<key, value>> pairs.  Each step takes the answer  *)
(* `o` of the API to the validation request it may send, and the unique    *)
(* ids configured so far.                                                  *)
(***************************************************************************)
\* const.DOMAIN
DOMAIN_NAME == "private_repo_loader"
DEFAULT_BRANCH == "main"
MANUAL == <<"__manual__">>
HTTPS == <<"https:", "/", "/">>

FlowHandler ==
    [type |-> "none", step_id |-> "none", errors |-> {}, error_detail |-> None,
     reason |-> "none", entry |-> None,
     _token |-> <<>>, _available_repos |-> <<>>, _username |-> None]

_generate_unique_id(repo_url, slug) == <<DOMAIN_NAME, "_">> \o slug

async_show_form(f, step_id, errors, error_detail) ==
    [f EXCEPT !.type = "form", !.step_id = step_id, !.errors = errors,
              !.error_detail = error_detail]

\* async_set_unique_id, _abort_if_unique_id_configured, async_create_entry
async_create_entry(f, unique_id, configured, title, data, options) ==
    IF unique_id \in configured
    THEN [f EXCEPT !.type = "abort", !.reason = "already_configured"]
    ELSE [f EXCEPT !.type = "create_entry", !.errors = {}, !.error_detail = None,
                   !.entry = Some([unique_id |-> unique_id, title |-> title,
                                   data |-> data, options |-> options])]

EntryData(repo_url, slug, branch, token) ==
    [repository |-> repo_url, slug |-> slug, branch |-> branch, token |-> token]

EntryOptions(poll_interval, branch, token) ==
    [poll_interval |-> poll_interval, branch |-> branch, token |-> token]

ManualInput(repo_url, slug, branch, token, poll_interval) ==
    [repository |-> repo_url, slug |-> slug, branch |-> branch, token |-> token,
     poll_interval |-> poll_interval]

repo_url_errors_required_only(repo_url) ==
    IF repo_url = <<>> THEN {<<"repository", "required">>} ELSE {}

repo_url_errors(repo_url) ==
    IF repo_url = <<>> THEN {<<"repository", "required">>}
    ELSE IF ~startswith(repo_url, HTTPS) THEN {<<"repository", "invalid_url">>}
    ELSE {}

repo_access_errors(validation) ==
    IF validation.error = "repo_not_found" THEN {<<"repository", "repo_not_found">>}
    ELSE IF validation.error = "invalid_token" THEN {<<"token", "invalid_token">>}
    ELSE IF validation.error = "insufficient_permissions"
         THEN {<<"token", "insufficient_permissions">>}
    ELSE IF validation.error = "rate_limited" THEN {<<"base", "rate_limited">>}
    ELSE {<<"base", "validation_failed">>}

async_step_manual(f, user_input, o, configured) ==
    IF user_input = None THEN async_show_form(f, "manual", {}, None)
    ELSE LET in == Val(user_input)
             repo_url == strip(in.repository)
             given == strip(in.slug)
             branch == strip(in.branch)
             token == strip(Get(in.token, f._token))
             parsed == parse_github_url(repo_url)
             slug == IF given = <<>> /\ parsed # None THEN Val(parsed)[2] ELSE given
             early == repo_url_errors(repo_url)
                          \cup (IF given = <<>> /\ parsed = None
                                THEN {<<"slug", "required">>} ELSE {})
             validates == repo_url # <<>> /\ early = {} /\ parsed # None
             validation == validate_repo_access(token, Val(parsed)[1], Val(parsed)[2],
                                                o).result
             failed == validates /\ ~validation.valid
             errors == IF failed THEN repo_access_errors(validation) ELSE early
             the_branch == IF branch = <<>> THEN <<DEFAULT_BRANCH>> ELSE branch
         IN  IF errors = {}
             THEN async_create_entry(f, _generate_unique_id(repo_url, slug), configured,
                                     slug,
                                     EntryData(repo_url, slug, the_branch, token),
                                     EntryOptions(in.poll_interval, the_branch, token))
             ELSE async_show_form(f, "manual", errors,
                                  IF failed THEN validation.error_message ELSE None)

\* next((r for r in self._available_repos if r.full_name == selected_repo), None)
find_repo(repos, selected_repo) ==
    LET at == {i \in 1..Len(repos) : repos[i].full_name = selected_repo}
    IN  IF at = {} THEN None ELSE Some(repos[CHOOSE i \in at : \A j \in at : i <= j])

async_step_select_repo(f, user_input, o, configured) ==
    IF user_input = None THEN async_show_form(f, "select_repo", {}, None)
    ELSE LET selected_repo == Val(user_input)
             found == find_repo(f._available_repos, selected_repo)
             repo_info == Val(found)
             parsed == parse_github_url(repo_info.clone_url)
             validation == validate_repo_access(f._token, Val(parsed)[1], Val(parsed)[2],
                                                o).result
         IN  IF selected_repo = MANUAL THEN async_step_manual(f, None, o, configured)
             ELSE IF selected_repo = <<>>
                  THEN async_show_form(f, "select_repo", {<<"selected_repo", "required">>},
                                       None)
             ELSE IF found = None THEN async_show_form(f, "select_repo", {}, None)
             ELSE IF parsed # None /\ ~validation.valid
                  THEN async_show_form(f, "select_repo",
                                       {<<"selected_repo", "repo_access_error">>}, None)
             ELSE async_create_entry(f,
                      _generate_unique_id(repo_info.clone_url, repo_info.name), configured,
                      repo_info.name,
                      EntryData(repo_info.clone_url, repo_info.name,
                                repo_info.default_branch, f._token),
                      EntryOptions(DEFAULT_POLL_INTERVAL, repo_info.default_branch,
                                   f._token))

token_errors_none(result) == {}

token_errors(result) ==
    IF result.error = "invalid_token" THEN {<<"token", "invalid_token">>}
    ELSE IF result.error = "rate_limited" THEN {<<"token", "rate_limited">>}
    ELSE IF result.error = "network_error" THEN {<<"base", "network_error">>}
    ELSE {<<"token", "unknown_error">>}

async_step_user(f, user_input, o, pages, configured) ==
    IF user_input = None THEN async_show_form(f, "user", {}, None)
    ELSE LET token == strip(Val(user_input))
             kept == [f EXCEPT !._token = token]
             result == validate_token(token, o).result
         IN  IF token = <<>> THEN async_step_manual(kept, None, o, configured)
             ELSE IF result.valid
                  THEN async_step_select_repo(
                           [kept EXCEPT !._username = result.username,
                                        !._available_repos =
                                            list_user_repos(token, pages).result],
                           None, o, configured)
             ELSE async_show_form(kept, "user", token_errors(result), result.error_message)

\* what is recorded of a step: the handler, its input and the answer of the API
FlowCall(step, input, o) == [step |-> step, input |-> input, outcome |-> o]

FlowIdle ==
    /\ flow = FlowHandler
    /\ uniqueIds = {}
    /\ rejected = {}
    /\ flowLast = None

(***************************************************************************)
(* update.py: RepoUpdateEntity.  A commit SHA is a text of characters; the *)
(* short SHA is its first 8.  The dict read from coordinator.data is       *)
(* reduced to the keys the entity reads: status and commit_sha.            *)
(***************************************************************************)
SHORT_SHA == 8

\* version[:8]
Short(version) == SubSeq(version, 1, IF Len(version) < SHORT_SHA THEN Len(version) ELSE SHORT_SHA)

VERSION_NEW == <<"n", "e", "w">>

UpdateEntity(pending_update, installed, latest) ==
    [pending_update |-> pending_update, installed_version |-> installed,
     latest_version |-> latest]

\* __init__
RepoUpdateEntity == UpdateEntity(FALSE, None, None)

\* Python truth of an optional text: neither None nor empty
Truthy(o) == o # None /\ Val(o) # <<>>

\* the installed_version property
installed_version(en, data) ==
    IF Truthy(en.installed_version) THEN Some(Short(Val(en.installed_version)))
    ELSE IF data # None /\ Truthy(Val(data).commit_sha) /\ ~en.pending_update
         THEN Some(Short(Val(Val(data).commit_sha)))
         ELSE None

\* the latest_version property
latest_version(en, data) ==
    IF en.pending_update /\ Truthy(en.latest_version)
    THEN Some(Short(Val(en.latest_version)))
    ELSE installed_version(en, data)

_handle_coordinator_update_unchanged_too(en, data) ==
    IF data = None THEN en
    ELSE IF Val(data).status \in {"cloned", "updated", "unchanged"}
              /\ Val(data).commit_sha # en.installed_version
         THEN UpdateEntity(TRUE, IF en.installed_version = None THEN Some(VERSION_NEW) ELSE en.installed_version,
                           Val(data).commit_sha)
         ELSE en

_handle_coordinator_update(en, data) ==
    IF data = None THEN en
    ELSE LET status == Val(data).status
             sha == Val(data).commit_sha
         IN  IF status \in {"cloned", "updated"}
             THEN IF sha # en.installed_version
                  THEN UpdateEntity(TRUE,
                                    IF en.installed_version = None
                                    THEN Some(VERSION_NEW) ELSE en.installed_version,
                                    sha)
                  ELSE en
             ELSE IF status = "unchanged"
                  THEN IF ~en.pending_update
                       THEN [en EXCEPT !.installed_version = sha]
                       ELSE en
                  ELSE en

async_install_keep_pending(en) == [en EXCEPT !.installed_version = en.latest_version]

\* async_install, but for the restart it asks for
async_install(en) ==
    [en EXCEPT !.installed_version = en.latest_version, !.pending_update = FALSE]

\* three commits; the first two have the same short SHA
SHA_A == <<"a", "b", "c", "1", "2", "3", "d", "e", "f">>
SHA_B == <<"a", "b", "c", "1", "2", "3", "d", "e", "0">>
SHA_C == <<"9", "8", "7", "6", "5", "4", "3", "2", "1">>
Shas == {SHA_A, SHA_B, SHA_C}

\* the dicts the coordinator hands to the entity
EntityDatas ==
    {Some([status |-> st, commit_sha |-> Some(sha)]) :
        st \in {"cloned", "updated", "unchanged"}, sha \in Shas}
    \cup {Some([status |-> "skipped", commit_sha |-> None])}

EntityIdle ==
    /\ entity = RepoUpdateEntity
    /\ entityData = None
    /\ restarts = 0
    /\ entityLast = None

UrlParts(lead, prefix, path, suffix) ==
    [lead |-> lead, prefix |-> prefix, path |-> path, suffix |-> suffix]

\* the URL written from its parts
Url(u) == u.lead \o u.prefix \o u.path \o u.suffix

UrlIdle == urlIn = UrlParts(<<>>, <<>>, <<>>, <<>>) /\ urlOut = None

ReposIdle == pagesIn = [token |-> <<>>, pages |-> <<>>] /\ reposOut = None

EntriesIdle == repoEntries = <<>> /\ components = NoFolders

ExtIdle == UrlIdle /\ ReposIdle /\ EntriesIdle

UiIdle == HostIdle /\ EntityIdle /\ ApiIdle /\ FlowIdle /\ ExtIdle

(***************************************************************************)
(* Initial values of the groups of variables.                              *)
(***************************************************************************)
PollIdle == pollLast = None /\ pollBase = DEFAULT_POLL_INTERVAL /\ pollOut = None

ParseIdle == errText = <<>> /\ errOut = None

SyncInit ==
    /\ cfg \in Cfgs
    /\ upstream \in {Commit(1, t) : t \in Trees}
    /\ staging \in {ABSENT, PLAIN_DIR}
    /\ dest = NoFolders
    /\ last = None

CoordIdle ==
    /\ running = [refresh |-> 0, force |-> 0]
    /\ coord = coordinator_init(None, DEFAULT_POLL_INTERVAL, 0)
    /\ stored = None
    /\ clock = 0
    /\ coordLast = Constructed(None, 0)

SyncIdle ==
    /\ cfg = [repository |-> None, slug |-> None, branch |-> Some("main"),
              token |-> Some(<<>>)]
    /\ upstream = Commit(1, TREE_STD)
    /\ staging = ABSENT
    /\ dest = NoFolders
    /\ last = None

(***************************************************************************)
(* Spec: calls of sync_repo_detailed for one repository, interleaved with  *)
(* upstream commits.                                                       *)
(***************************************************************************)
Init == SyncInit /\ PollIdle /\ ParseIdle /\ CoordIdle /\ UiIdle

\* what is recorded of a call: the result, the operations attempted, the
\* kind and head of the staging path before it, the tree checked out after
\* it, the upstream head at the call and at the call before it
Call(out) ==
    [result |-> out.result, status |-> sync_repo(out), ops |-> out.ops,
     before |-> staging.kind, commit_before |-> staging.head.sha,
     tree |-> out.staging.head.tree,
     up |-> upstream.sha,
     prev_up |-> IF last = None THEN 0 ELSE Val(last).up]

SyncCall ==
    \E o \in Oracles :
      \E out \in {sync_repo_detailed(staging, dest, upstream, cfg, o)} :
            /\ staging' = out.staging
            /\ dest' = out.dest
            /\ last' = Some(Call(out))
            /\ UNCHANGED <<uiVars, cfg, upstream, pollVars, parseVars, coordVars>>

Push(trees) ==
    /\ upstream.sha < MaxCommits
    /\ \E t \in trees : upstream' = Commit(upstream.sha + 1, t)
    /\ UNCHANGED <<uiVars, cfg, staging, dest, last, pollVars, parseVars, coordVars>>

UpstreamCommit == Push(Trees)

Next == SyncCall \/ UpstreamCommit

Spec == Init /\ [][Next]_vars

(***************************************************************************)
(* SpecPoll: calculate_poll_interval applied to each input.                *)
(***************************************************************************)
InitPoll ==
    /\ pollLast \in ChangeTimes
    /\ pollBase \in 1..MAX_POLL_INTERVAL
    /\ pollOut = None
    /\ ParseIdle
    /\ SyncIdle
    /\ CoordIdle
    /\ UiIdle

CalculatePollInterval ==
    /\ \E now \in Instants :
          pollOut' = Some([now |-> now,
                           interval |-> calculate_poll_interval(pollLast, pollBase, now)])
    /\ UNCHANGED <<uiVars, pollLast, pollBase, parseVars, syncVars, coordVars>>

NextPoll == CalculatePollInterval

SpecPoll == InitPoll /\ [][NextPoll]_vars

(***************************************************************************)
(* SpecParse: _parse_git_error applied to each error text.                 *)
(***************************************************************************)
InitParse ==
    /\ errText \in ErrTexts
    /\ errOut = None
    /\ PollIdle
    /\ SyncIdle
    /\ CoordIdle
    /\ UiIdle

ParseGitError ==
    /\ errOut = None
    /\ errOut' = Some(_parse_git_error(errText))
    /\ UNCHANGED <<uiVars, errText, pollVars, syncVars, coordVars>>

NextParse == ParseGitError

SpecParse == InitParse /\ [][NextParse]_vars

(***************************************************************************)
(* SpecCoord: one config entry and its coordinator.  The host runs the     *)
(* refreshes it schedules or is asked for (async_refresh,                  *)
(* async_request_refresh) one at a time; async_force_sync calls            *)
(* _async_update_data itself.  An execution of _async_update_data is two   *)
(* steps: it hands sync_repo_detailed to the executor, and when the job    *)
(* returns it processes the result.  The job is one step of the model,     *)
(* taken when it returns.                                                  *)
(***************************************************************************)
InitCoord ==
    /\ cfg \in CoordCfgs
    /\ upstream \in {Commit(1, t) : t \in CoordTrees}
    /\ staging = ABSENT
    /\ dest = NoFolders
    /\ last = None
    /\ running = [refresh |-> 0, force |-> 0]
    /\ stored = None
    /\ clock = 0
    /\ coord = coordinator_init(stored, DEFAULT_POLL_INTERVAL, clock)
    /\ coordLast = Constructed(stored, clock)
    /\ PollIdle
    /\ ParseIdle
    /\ UiIdle

\* the update interval has elapsed: the host calls _async_update_data
ScheduledRefresh ==
    /\ running.refresh = 0
    /\ running' = [running EXCEPT !.refresh = 1]
    /\ UNCHANGED <<uiVars, coord, stored, clock, coordLast, syncVars, pollVars, parseVars>>

\* _handle_sync_now (and a sync button's async_press): async_request_refresh
RequestRefresh ==
    /\ running.refresh = 0
    /\ running' = [running EXCEPT !.refresh = 1]
    /\ UNCHANGED <<uiVars, coord, stored, clock, coordLast, syncVars, pollVars, parseVars>>

\* _handle_reload_repos: async_force_sync, which calls _async_update_data
ReloadRepos ==
    /\ running.force < MaxForce
    /\ running' = [running EXCEPT !.force = @ + 1]
    /\ UNCHANGED <<uiVars, coord, stored, clock, coordLast, syncVars, pollVars, parseVars>>

\* the executor job of one execution returns and _async_update_data goes on
\* to its end
UpdateData(kind, keep) ==
    \E o \in CoordOracles :
      \E out \in {sync_repo_detailed(staging, dest, upstream, cfg, o)} :
        \E upd \in {update_data(coord, stored, cfg, out.result, clock)} :
            /\ staging' = out.staging
            /\ dest' = out.dest
            /\ stored' = upd.stored
            /\ coord' = [upd.coord EXCEPT !.data = IF keep THEN Some(upd.data) ELSE @]
            /\ running' = [running EXCEPT ![kind] = @ - 1]
            /\ coordLast' = [kind |-> kind, now |-> clock, result |-> Some(out.result),
                             data |-> Some(upd.data),
                             before |-> [last_changed |-> coord.last_changed,
                                         stored |-> stored]]
            /\ UNCHANGED <<uiVars, cfg, upstream, last, clock, pollVars, parseVars>>

\* a refresh run by the host: the dict returned becomes coordinator.data
FinishRefresh ==
    /\ running.refresh > 0
    /\ UpdateData("refresh", TRUE)

\* a force sync: _handle_reload_repos drops the dict returned
FinishForceSync ==
    /\ running.force > 0
    /\ UpdateData("force", FALSE)

\* a commit is pushed upstream while the coordinator runs
CoordUpstreamCommit == Push(CoordTrees)

\* time passes, up to the next threshold of calculate_poll_interval
Tick ==
    /\ clock < THRESHOLD_1_MONTH
    /\ clock' = IF clock < THRESHOLD_1_DAY THEN THRESHOLD_1_DAY
                ELSE IF clock < THRESHOLD_1_WEEK THEN THRESHOLD_1_WEEK
                ELSE THRESHOLD_1_MONTH
    /\ UNCHANGED <<uiVars, running, coord, stored, coordLast, syncVars, pollVars, parseVars>>

NextCoord ==
    \/ ScheduledRefresh
    \/ RequestRefresh
    \/ ReloadRepos
    \/ FinishRefresh
    \/ FinishForceSync
    \/ CoordUpstreamCommit
    \/ Tick

SpecCoord == InitCoord /\ [][NextCoord]_vars

(***************************************************************************)
(* SpecUpdates: the coordinator of one entry over its life: constructed    *)
(* from the entry, updated with the result of each sync, and constructed   *)
(* anew from what the entry then stores when the entry is set up again.    *)
(***************************************************************************)
InitUpdates ==
    /\ stored \in StoredTexts
    /\ clock \in Thresholds \cup {0}
    /\ \E base \in Bases : coord = coordinator_init(stored, base, clock)
    /\ coordLast = Constructed(stored, clock)
    /\ running = [refresh |-> 0, force |-> 0]
    /\ SyncIdle
    /\ PollIdle
    /\ ParseIdle
    /\ UiIdle

\* _async_update_data, from the return of its executor job to its end
AsyncUpdateData ==
    /\ \E result \in SyncResults, kind \in {"refresh", "force"} :
        \E upd \in {update_data(coord, stored, CHOOSE c \in CoordCfgs : TRUE, result, clock)} :
            /\ stored' = upd.stored
            /\ coord' = [upd.coord EXCEPT !.data = IF kind = "refresh" THEN Some(upd.data) ELSE @]
            /\ coordLast' = [kind |-> kind, now |-> clock, result |-> Some(result),
                             data |-> Some(upd.data),
                             before |-> [last_changed |-> coord.last_changed,
                                         stored |-> stored]]
    /\ UNCHANGED <<uiVars, running, clock, syncVars, pollVars, parseVars>>

\* async_setup_entry constructs the coordinator of the entry again
Reconstruct ==
    /\ coord' = coordinator_init(stored, coord.base, clock)
    /\ coordLast' = Constructed(stored, clock)
    /\ UNCHANGED <<uiVars, running, stored, clock, syncVars, pollVars, parseVars>>

NextUpdates == AsyncUpdateData \/ Reconstruct \/ Tick

SpecUpdates == InitUpdates /\ [][NextUpdates]_vars

(***************************************************************************)
(* SpecEntity: the update entity of one entry.  It is constructed when its *)
(* platform is set up, after the first refresh; each later refresh of the  *)
(* coordinator stores new data and calls _handle_coordinator_update.  The  *)
(* host's update.install service calls async_install only while            *)
(* latest_version is set and differs from installed_version.               *)
(***************************************************************************)
InitEntity ==
    /\ entity = RepoUpdateEntity
    /\ entityData \in EntityDatas
    /\ restarts = 0
    /\ entityLast = None
    /\ HostIdle
    /\ ApiIdle
    /\ FlowIdle
    /\ ExtIdle
    /\ SyncIdle
    /\ PollIdle
    /\ ParseIdle
    /\ CoordIdle

\* the commit of the latest data with status cloned or updated
ReportedBy(earlier, data) ==
    IF Val(data).status \in {"cloned", "updated"} THEN Val(data).commit_sha ELSE earlier

Reported ==
    IF entityLast = None THEN ReportedBy(None, entityData) ELSE Val(entityLast).reported

\* what is recorded of a coordinator update or an install: the entity and
\* the two version properties before it, and the commit of the latest
\* cloned or updated data the coordinator has had
EntityCall(op) ==
    [op |-> op, before |-> entity,
     installed |-> installed_version(entity, entityData),
     latest |-> latest_version(entity, entityData),
     restarts |-> restarts,
     reported |-> Reported]

HandleCoordinatorUpdate ==
    /\ \E data \in EntityDatas :
          /\ entityData' = data
          /\ entity' = _handle_coordinator_update(entity, data)
          /\ entityLast' = Some([EntityCall("update") EXCEPT
                                    !.reported = ReportedBy(Reported, data)])
    /\ UNCHANGED <<apiVars, restarts, hostVars, flowVars, extVars, syncVars, pollVars, parseVars, coordVars>>

Install ==
    /\ restarts < MaxInstalls
    /\ latest_version(entity, entityData) # None
    /\ installed_version(entity, entityData) # latest_version(entity, entityData)
    /\ entity' = async_install(entity)
    /\ restarts' = restarts + 1
    /\ entityLast' = Some(EntityCall("install"))
    /\ UNCHANGED <<apiVars, entityData, hostVars, flowVars, extVars, syncVars, pollVars, parseVars, coordVars>>

NextEntity == HandleCoordinatorUpdate \/ Install

SpecEntity == InitEntity /\ [][NextEntity]_vars

(***************************************************************************)
(* SpecApi: validate_token and validate_repo_access applied to each call   *)
(* and each answer of the API.                                             *)
(***************************************************************************)
InitApi ==
    /\ apiIn \in {ApiCall(fn, token, <<"owner">>, <<"repo">>, o) :
                    fn \in {"validate_token", "validate_repo_access"},
                    token \in {<<>>, TOKEN}, o \in ApiOutcomes}
    /\ apiOut = None
    /\ HostIdle
    /\ EntityIdle
    /\ FlowIdle
    /\ ExtIdle
    /\ SyncIdle
    /\ PollIdle
    /\ ParseIdle
    /\ CoordIdle

ValidateToken ==
    /\ apiIn.fn = "validate_token"
    /\ apiOut = None
    /\ apiOut' = Some(validate_token(apiIn.token, apiIn.outcome))
    /\ UNCHANGED <<apiIn, hostVars, entityVars, flowVars, extVars, syncVars, pollVars, parseVars, coordVars>>

ValidateRepoAccess ==
    /\ apiIn.fn = "validate_repo_access"
    /\ apiOut = None
    /\ apiOut' = Some(validate_repo_access(apiIn.token, apiIn.owner, apiIn.repo, apiIn.outcome))
    /\ UNCHANGED <<apiIn, hostVars, entityVars, flowVars, extVars, syncVars, pollVars, parseVars, coordVars>>

NextApi == ValidateToken \/ ValidateRepoAccess

SpecApi == InitApi /\ [][NextApi]_vars

(***************************************************************************)
(* SpecHost: the config entries of the domain are created, set up,         *)
(* unloaded and deleted by the host.  The host unloads a loaded entry      *)
(* before it deletes it, so the entry is still listed while                *)
(* async_unload_entry runs.                                                *)
(***************************************************************************)
InitHost ==
    HostIdle /\ EntityIdle /\ ApiIdle /\ FlowIdle /\ ExtIdle /\ SyncIdle /\ PollIdle /\ ParseIdle /\ CoordIdle

\* what is recorded of a setup or unload: the handler, the entry, the input
\* drawn, the entries listed and the services registered before it
HostCall(op, entry, input) ==
    [op |-> op, entry |-> entry, input |-> input,
     listed |-> async_entries(hass),
     had |-> {n \in Services : has_service(hass, n)}]

\* a config flow has created an entry
AddEntry ==
    /\ \E e \in EntryIds :
          /\ hass.entries[e] = "absent"
          /\ hass' = [hass EXCEPT !.entries[e] = "not_loaded"]
    /\ UNCHANGED <<apiVars, hostLast, entityVars, flowVars, extVars, syncVars, pollVars, parseVars, coordVars>>

SetupEntry ==
    /\ \E e \in EntryIds, first \in FirstRefresh :
          /\ hass.entries[e] = "not_loaded"
          /\ hass' = async_setup_entry(hass, e, first)
          /\ hostLast' = Some(HostCall("setup", e, first))
    /\ UNCHANGED <<apiVars, entityVars, flowVars, extVars, syncVars, pollVars, parseVars, coordVars>>

UnloadEntry ==
    /\ \E e \in EntryIds, unload_ok \in BOOLEAN :
          /\ hass.entries[e] = "loaded"
          /\ hass' = async_unload_entry(hass, e, unload_ok)
          /\ hostLast' = Some(HostCall("unload", e, unload_ok))
    /\ UNCHANGED <<apiVars, entityVars, flowVars, extVars, syncVars, pollVars, parseVars, coordVars>>

\* the host deletes an entry that is not loaded, with what is left of it
RemoveEntry ==
    /\ \E e \in EntryIds :
          /\ hass.entries[e] \in {"not_loaded", "failed_unload"}
          /\ hass' = [hass EXCEPT !.entries[e] = "absent", !.entities[e] = {}]
    /\ UNCHANGED <<apiVars, hostLast, entityVars, flowVars, extVars, syncVars, pollVars, parseVars, coordVars>>

NextHost == AddEntry \/ SetupEntry \/ UnloadEntry \/ RemoveEntry

SpecHost == InitHost /\ [][NextHost]_vars

(***************************************************************************)
(* SpecFlow: the host starts a config flow by calling async_step_user      *)
(* without input, then calls the step whose form is shown with what the    *)
(* user submits; a submission has passed the data_schema of the form.  A   *)
(* flow that ended is followed by a new one, after the entry it created    *)
(* was added to the entries of the domain.                                 *)
(***************************************************************************)
URL_GITLAB == <<"https:", "/", "/", "gitlab.com", "/", "owner", "/", "repo", ".git">>
URL_GITHUB_OWNER == <<"https:", "/", "/", "github.com", "/", "owner">>
URL_GITHUB_NO_REPO == <<"https:", "/", "/", "github.com", "/", "owner", "/", ".git">>
POLL_INPUT == 5

REPO_1 == GitHubRepoInfo(<<"owner">>, <<"repo">>)
REPO_2 == GitHubRepoInfo(<<"owner">>, <<"other">>)

UserTokens == {<<>>, <<" ">>, TOKEN}

FlowOutcomes ==
    {ClientError(<<"Cannot connect to host">>)}
    \cup {Response(st, Some(<<"42">>), Some(<<"octocat">>)) : st \in {200, 401, 403, 404}}
    \cup {Response(403, None, Some(<<"octocat">>))}

FlowPages ==
    {[p \in 1..MAX_PAGES |-> page] :
        page \in {PageError(<<"Cannot connect to host">>), Page(500, <<>>),
                  Page(200, <<REPO_1>>), Page(200, <<REPO_1, REPO_2>>)}}

ManualInputs ==
    {ManualInput(repo_url, slug, branch, token, POLL_INPUT) :
        repo_url \in {<<>>, URL_HTTPS, URL_SSH, URL_GITLAB, URL_GITHUB_OWNER,
                      URL_GITHUB_NO_REPO},
        slug \in {<<>>, SLUG},
        branch \in {<<>>},
        token \in {None, Some(TOKEN)}}

\* the choices of the select_repo form
repo_options(f) ==
    {f._available_repos[i].full_name : i \in 1..Len(f._available_repos)} \cup {MANUAL}

InitFlow ==
    /\ FlowIdle
    /\ ExtIdle
    /\ HostIdle
    /\ EntityIdle
    /\ ApiIdle
    /\ SyncIdle
    /\ PollIdle
    /\ ParseIdle
    /\ CoordIdle

StartFlow ==
    /\ flow.type = "none"
    /\ flow' = async_step_user(flow, None, ClientError(<<>>), [p \in 1..MAX_PAGES |->
                                   PageError(<<>>)], uniqueIds)
    /\ flowLast' = Some(FlowCall("user", None, ClientError(<<>>)))
    /\ UNCHANGED <<uniqueIds, rejected, hostVars, entityVars, apiVars,
                   extVars, syncVars, pollVars, parseVars, coordVars>>

StepUser ==
    /\ flow.type = "form"
    /\ flow.step_id = "user"
    /\ \E token \in UserTokens, o \in FlowOutcomes, pages \in FlowPages :
          /\ flow' = async_step_user(flow, Some(token), o, pages, uniqueIds)
          /\ flowLast' = Some(FlowCall("user", Some(token), o))
          /\ rejected' =
                 IF strip(token) = <<>> THEN rejected
                 ELSE IF validate_token(strip(token), o).result.valid
                      THEN rejected \ {strip(token)}
                      ELSE rejected \cup {strip(token)}
    /\ UNCHANGED <<uniqueIds, hostVars, entityVars, apiVars,
                   extVars, syncVars, pollVars, parseVars, coordVars>>

StepSelectRepo ==
    /\ flow.type = "form"
    /\ flow.step_id = "select_repo"
    /\ \E selected_repo \in repo_options(flow), o \in FlowOutcomes :
          /\ flow' = async_step_select_repo(flow, Some(selected_repo), o, uniqueIds)
          /\ flowLast' = Some(FlowCall("select_repo", Some(selected_repo), o))
    /\ UNCHANGED <<uniqueIds, rejected, hostVars, entityVars, apiVars,
                   extVars, syncVars, pollVars, parseVars, coordVars>>

StepManual ==
    /\ flow.type = "form"
    /\ flow.step_id = "manual"
    /\ \E user_input \in ManualInputs, o \in FlowOutcomes :
          /\ flow' = async_step_manual(flow, Some(user_input), o, uniqueIds)
          /\ flowLast' = Some(FlowCall("manual", Some(user_input), o))
    /\ UNCHANGED <<uniqueIds, rejected, hostVars, entityVars, apiVars,
                   extVars, syncVars, pollVars, parseVars, coordVars>>

NewFlow ==
    /\ flow.type \in {"create_entry", "abort"}
    /\ flow' = FlowHandler
    /\ uniqueIds' = uniqueIds \cup (IF flow.type = "create_entry"
                                    THEN {Val(flow.entry).unique_id} ELSE {})
    /\ rejected' = {}
    /\ flowLast' = None
    /\ UNCHANGED <<hostVars, entityVars, apiVars, extVars, syncVars, pollVars, parseVars, coordVars>>

NextFlow == StartFlow \/ StepUser \/ StepSelectRepo \/ StepManual \/ NewFlow

SpecFlow == InitFlow /\ [][NextFlow]_vars

(***************************************************************************)
(* SpecUrl: parse_github_url applied to URLs written from an optional      *)
(* leading blank, a prefix, a path and a suffix.                           *)
(***************************************************************************)
GITHUB_HTTP == <<"http:", "/", "/", "github.com", "/">>
GITLAB_HTTPS == <<"https:", "/", "/", "gitlab.com", "/">>

UrlPrefixes == {<<>>, GITHUB_HTTPS, GITHUB_SSH, GITHUB_HTTP, GITLAB_HTTPS}

UrlPaths ==
    {<<>>, <<"owner">>, <<"owner", "/", "repo">>, <<"BitBasherr", "/", "CustomEntity">>,
     <<"owner", "/", "repo", "/", "tree", "/", "main">>}

UrlSuffixes == {<<>>, <<".git">>, <<"/">>, <<".git", "/">>}

InitUrl ==
    /\ urlIn \in {UrlParts(lead, prefix, path, suffix) :
                    lead \in {<<>>, <<" ">>}, prefix \in UrlPrefixes,
                    path \in UrlPaths, suffix \in UrlSuffixes}
    /\ urlOut = None
    /\ ReposIdle
    /\ EntriesIdle
    /\ HostIdle
    /\ EntityIdle
    /\ ApiIdle
    /\ FlowIdle
    /\ SyncIdle
    /\ PollIdle
    /\ ParseIdle
    /\ CoordIdle

ParseGithubUrl ==
    /\ urlOut = None
    /\ urlOut' = Some(parse_github_url(Url(urlIn)))
    /\ UNCHANGED <<urlIn, reposVars, entriesVars, hostVars, entityVars, apiVars, flowVars,
                   syncVars, pollVars, parseVars, coordVars>>

NextUrl == ParseGithubUrl

SpecUrl == InitUrl /\ [][NextUrl]_vars

(***************************************************************************)
(* SpecRepos: list_user_repos applied to a token and to the answers of the *)
(* API: a number of full pages, followed by pages of one other kind.  The  *)
(* repositories of page p are named after p.                               *)
(***************************************************************************)
PageNames == <<"p1", "p2", "p3", "p4", "p5", "p6", "p7", "p8", "p9", "p10">>

ItemsOf(p, n) == [i \in 1..n |-> GitHubRepoInfo(<<"owner">>, <<PageNames[p]>>)]

\* what follows the full pages: a client error, a server error, an empty
\* page, a page of one item, a page of one item less than per_page
PageKinds == {"error", "500", "empty", "one", "short"}

PageOf(kind, p) ==
    IF kind = "error" THEN PageError(<<"Cannot connect to host">>)
    ELSE IF kind = "500" THEN Page(500, ItemsOf(p, 1))
    ELSE IF kind = "empty" THEN Page(200, <<>>)
    ELSE IF kind = "one" THEN Page(200, ItemsOf(p, 1))
    ELSE IF kind = "short" THEN Page(200, ItemsOf(p, PER_PAGE - 1))
    ELSE Page(200, ItemsOf(p, PER_PAGE))

PagesInputs ==
    {[p \in 1..MAX_PAGES |-> IF p <= full THEN PageOf("full", p) ELSE PageOf(kind, p)] :
        full \in 0..MAX_PAGES, kind \in PageKinds}

InitRepos ==
    /\ pagesIn \in [token : {<<>>, TOKEN}, pages : PagesInputs]
    /\ reposOut = None
    /\ UrlIdle
    /\ EntriesIdle
    /\ HostIdle
    /\ EntityIdle
    /\ ApiIdle
    /\ FlowIdle
    /\ SyncIdle
    /\ PollIdle
    /\ ParseIdle
    /\ CoordIdle

ListUserRepos ==
    /\ reposOut = None
    /\ reposOut' = Some(list_user_repos(pagesIn.token, pagesIn.pages))
    /\ UNCHANGED <<pagesIn, urlVars, entriesVars, hostVars, entityVars, apiVars, flowVars,
                   syncVars, pollVars, parseVars, coordVars>>

NextRepos == ListUserRepos

SpecRepos == InitRepos /\ [][NextRepos]_vars

(***************************************************************************)
(* Properties of sync_repo_detailed, checked under Spec.                   *)
(***************************************************************************)
Done == last # None
TheCall == Val(last)
Status == TheCall.result.status
Synced == {"cloned", "updated", "unchanged"}

\* the slug a call works with, and whether the call gets as far as git
SlugOf(c) ==
    IF Get(c.slug, <<>>) = <<>> THEN slug_from_url(Get(c.repository, <<>>))
    ELSE Get(c.slug, <<>>)

ReachesGit(c) == startswith(Get(c.repository, <<>>), HTTPS_PREFIX) /\ SlugOf(c) # <<>>

\* the folder an integration of `tree` is installed in, and the files it has
\* in that commit
InstalledName(tree) ==
    LET src == _find_integration_in_repo(tree, SlugOf(cfg), SLUG)
    IN  IF src.kind = "root" THEN SlugOf(cfg) ELSE src.name

InstalledFiles(tree) ==
    LET src == _find_integration_in_repo(tree, SlugOf(cfg), SLUG)
    IN  IF src.kind = "root" THEN tree.root \ EXCLUDE_PATTERNS ELSE tree.cc[src.name]

HasIntegration(tree) == _find_integration_in_repo(tree, SlugOf(cfg), SLUG).kind # "none"

\* whether an operation of the call raised and ended it
Failed(ops) == ops # <<>> /\ ~ops[Len(ops)].ok

\* C1: whenever a call returns cloned, updated or unchanged with commit_sha c,
\* the integration folder under custom_components holds the integration
\* files of commit c.
C1_Mirroring ==
    (Done /\ Status \in Synced) =>
        /\ InstalledName(TheCall.tree) \in DOMAIN dest
        /\ InstalledFiles(TheCall.tree) \subseteq dest[InstalledName(TheCall.tree)]

C3_StatusTag ==
    Done =>
        /\ Status \in {"cloned", "updated", "unchanged", "skipped"}
        /\ TheCall.status \in {"cloned", "updated", "unchanged", "skipped"}

C3_Witness ==
    /\ Done /\ Status = "skipped" /\ TheCall.status = "skipped"
    /\ TheCall.result.error_type = Some("structure")
    /\ TheCall.before = "clone"

\* C4: has_changes is true exactly when the status is cloned or updated.
C4_ChangedFlag ==
    Done => (TheCall.result.has_changes <=> Status \in {"cloned", "updated"})

C4_Witness ==
    /\ Done /\ Status = "updated" /\ TheCall.result.has_changes
    /\ TheCall.commit_before # 0 /\ TheCall.result.commit_sha = Some(TheCall.up)

\* C5: error and error_type are set exactly when the status is skipped, and
\* commit_sha is set exactly when the status is cloned, updated or unchanged.
C5_ErrorAndCommit ==
    Done =>
        /\ TheCall.result.error # None <=> Status = "skipped"
        /\ TheCall.result.error_type # None <=> Status = "skipped"
        /\ TheCall.result.commit_sha # None <=> Status \in Synced

C5_Witness ==
    /\ Done /\ Status = "unchanged"
    /\ TheCall.result.commit_sha = Some(TheCall.commit_before)
    /\ TheCall.result.error = None /\ TheCall.result.error_type = None

\* C8: within one call each of clone, fetch and pull is attempted at most
\* once, and a failure of any of them is the last operation of the call,
\* which returns skipped.
C8_NoRetry ==
    Done =>
        \A op \in {"clone", "fetch", "pull"} :
            LET at == {i \in 1..Len(TheCall.ops) : TheCall.ops[i].op = op}
            IN  /\ Cardinality(at) <= 1
                /\ \A i \in at :
                      ~TheCall.ops[i].ok => (i = Len(TheCall.ops) /\ Status = "skipped")

C8_Witness ==
    /\ Done /\ Status = "skipped"
    /\ Len(TheCall.ops) = 4
    /\ TheCall.ops[1] = Cmd("fetch", TRUE)
    /\ TheCall.ops[4] = Cmd("pull", FALSE)

\* C9: a call with a missing or empty URL, or with a URL that starts with
\* neither https:// nor file://, returns skipped with error_type config and
\* a non-empty error text, and attempts no clone, fetch or pull.
BadUrl(c) ==
    \/ Get(c.repository, <<>>) = <<>>
    \/ /\ ~startswith(Get(c.repository, <<>>), HTTPS_PREFIX)
       /\ ~startswith(Get(c.repository, <<>>), FILE_PREFIX)

C9_BadUrlSkipped ==
    (Done /\ BadUrl(cfg)) =>
        /\ Status = "skipped"
        /\ TheCall.result.error_type = Some("config")
        /\ TheCall.result.error # None
        /\ Val(TheCall.result.error) # <<>>
        /\ TheCall.ops = <<>>
        /\ staging \in {ABSENT, PLAIN_DIR}
        /\ dest = NoFolders

C9_Witness ==
    /\ Done /\ cfg.repository = Some(URL_SSH)
    /\ TheCall.result.error = Some(<<"Repository URL must start with https://">>)

(***************************************************************************)
(* Property of calculate_poll_interval, checked under SpecPoll.            *)
(***************************************************************************)
\* C6: calculate_poll_interval returns base when last_changed is None or
\* less than 1 day has elapsed, 5 minutes from 1 day up to 7 days, 30 minutes
\* from 7 days up to 30 days, 60 minutes from 30 days on.
C6_PollIntervalSteps ==
    pollOut # None =>
        LET elapsed == Val(pollOut).now - Val(pollLast)
            day == 24 * 60 * 60
        IN  Val(pollOut).interval =
                IF pollLast = None THEN pollBase
                ELSE IF elapsed < day THEN pollBase
                ELSE IF elapsed < 7 * day THEN 5
                ELSE IF elapsed < 30 * day THEN 30
                ELSE 60

C6_Witness ==
    /\ pollOut # None /\ pollLast # None
    /\ Val(pollOut).now - Val(pollLast) = 24 * 60 * 60
    /\ pollBase = 2
    /\ Val(pollOut).interval = 5

(***************************************************************************)
(* Property of _parse_git_error, checked under SpecParse.                  *)
(***************************************************************************)
\* the rules of the claim, in its order; a rule matches a text that holds
\* one of its markers, in any letter case
Rules ==
    << [markers |-> {"authentication failed", "invalid credentials"}, category |-> "auth"],
       [markers |-> {"401", "unauthorized"}, category |-> "auth"],
       [markers |-> {"403", "forbidden"}, category |-> "permission"],
       [markers |-> {"404", "not found"}, category |-> "not_found"],
       [markers |-> {"could not read from remote", "remote hung up", "connection refused"},
        category |-> "network"],
       [markers |-> {"does not appear to be a git repository"}, category |-> "not_found"] >>

RuleMatches(r, text) == \E i \in 1..Len(text) : LowerPhrase(text[i]) \in Rules[r].markers

\* C7: _parse_git_error maps every error text to one of auth, permission,
\* not_found, network, unknown: the category of the first rule that matches,
\* and unknown with the text itself as the message when no rule matches.
C7_FirstMatchingRule ==
    errOut # None =>
        LET hits == {r \in 1..Len(Rules) : RuleMatches(r, errText)}
            first == CHOOSE r \in hits : \A q \in hits : r <= q
        IN  /\ Val(errOut).error_type \in
                   {"auth", "permission", "not_found", "network", "unknown"}
            /\ hits # {} => Val(errOut).error_type = Rules[first].category
            /\ hits = {} =>
                   /\ Val(errOut).error_type = "unknown"
                   /\ Val(errOut).message = errText

C7_Witness ==
    /\ errOut # None
    /\ errText = <<"403", "Unauthorized">>
    /\ Val(errOut).error_type = "auth"

(***************************************************************************)
(* Properties of the coordinator, checked under SpecCoord.                 *)
(***************************************************************************)
InProgress == running.refresh + running.force

\* C10: across scheduled refreshes, refresh requests and force syncs, at
\* most one sync_repo_detailed execution for the repository is in progress
\* on the executor at any time.
C10_Serialized == InProgress <= 1

(***************************************************************************)
(* Properties of the setup and unload of entries, checked under SpecHost.  *)
(***************************************************************************)
Loaded == {e \in EntryIds : hass.entries[e] = "loaded"}

AllEntities == async_forward_entry_setups({"sensor", "button", "update"})

\* C11: after async_setup_entry has succeeded for an entry, the sensor,
\* button and update platforms are set up for it: its sensors, its sync and
\* restart buttons and its update entity exist.
C11_AllPlatforms == \A e \in Loaded : AllEntities \subseteq hass.entities[e]

HostDone == hostLast # None
TheHostCall == Val(hostLast)
SetupSucceeded == HostDone /\ TheHostCall.op = "setup" /\ TheHostCall.input # "raised"
Registered == {n \in Services : has_service(hass, n)}

\* C14: the sync_now and reload_repos services are each registered exactly
\* once: a successful setup that finds no sync_now service registers both,
\* every other setup registers nothing, and while an entry is loaded each
\* service has been registered once.
C14_RegisteredOnce ==
    /\ \A n \in Services : hass.services[n] <= 1
    /\ Loaded # {} => Registered = Services
    /\ SetupSucceeded => Registered = Services

C14_Witness ==
    /\ SetupSucceeded
    /\ SERVICE_SYNC_NOW \in TheHostCall.had
    /\ Cardinality(Loaded) = 2

\* C15: async_unload_entry removes both services exactly when the entry
\* being unloaded is the only entry listed for the domain; when other
\* entries exist it removes neither, so the services stay registered while
\* another entry is loaded.
C15_RemoveOnLast ==
    HostDone /\ TheHostCall.op = "unload" =>
        /\ TheHostCall.listed = {TheHostCall.entry} => Registered = {}
        /\ TheHostCall.listed # {TheHostCall.entry} => Registered = TheHostCall.had
        /\ Loaded # {} => Registered = Services

C15_Witness ==
    /\ HostDone
    /\ TheHostCall.op = "unload"
    /\ Cardinality(TheHostCall.listed) = 2
    /\ Loaded # {}
    /\ Registered = Services

(***************************************************************************)
(* Properties of the coordinator's updates, checked under SpecUpdates.     *)
(***************************************************************************)
Updated == coordLast.kind \in {"refresh", "force"}
TheResult == Val(coordLast.result)
TheData == Val(coordLast.data)

\* C12: an update that receives a result with has_changes true sets
\* last_changed to the time of the update, writes the same timestamp into
\* the entry data, includes it in the data returned, and leaves the poll
\* interval equal to the base interval.
C12_ChangeRecorded ==
    Updated /\ TheResult.has_changes =>
        /\ coord.last_changed = Some(coordLast.now)
        /\ stored = Some(isoformat(coordLast.now))
        /\ TheData.last_changed = Some(isoformat(coordLast.now))
        /\ coord.update_interval = coord.base

C12_Witness ==
    /\ Updated
    /\ TheResult.has_changes
    /\ coord.base = 10
    /\ coordLast.before.last_changed = Some(0)
    /\ coordLast.now = THRESHOLD_1_WEEK

\* C13: right after construction last_changed is the stored last_changed
\* (None when absent or unparseable), and right after construction and
\* after every update the poll interval is
\* calculate_poll_interval(last_changed, base).
C13_IntervalFollows ==
    /\ coord.update_interval =
           calculate_poll_interval(coord.last_changed, coord.base, coordLast.now)
    /\ coordLast.kind = "init" =>
           coord.last_changed =
               IF stored # None /\ Val(stored).kind = "iso" THEN Some(Val(stored).t) ELSE None

C13_Witness ==
    /\ coordLast.kind = "init"
    /\ stored = Some(isoformat(THRESHOLD_1_DAY))
    /\ coordLast.now = THRESHOLD_1_MONTH
    /\ coord.base = 10
    /\ coord.update_interval = POLL_INTERVAL_1_WEEK

(***************************************************************************)
(* Properties of the update entity, checked under SpecEntity.              *)
(***************************************************************************)
EntityDone == entityLast # None
TheEntityCall == Val(entityLast)
Handled(statuses) ==
    EntityDone /\ TheEntityCall.op = "update" /\ Val(entityData).status \in statuses

\* C16: on a coordinator update whose status is cloned or updated and whose
\* commit_sha differs from the recorded installed version, the entity marks
\* an update as pending and latest_version becomes the first 8 characters
\* of that commit_sha; an update with status unchanged never sets the
\* pending flag.
C16_PendingOnChange ==
    /\ Handled({"cloned", "updated"})
         /\ Val(entityData).commit_sha # TheEntityCall.before.installed_version
       => /\ entity.pending_update
          /\ latest_version(entity, entityData) = Some(Short(Val(Val(entityData).commit_sha)))
    /\ Handled({"unchanged"}) => (entity.pending_update => TheEntityCall.before.pending_update)

C16_Witness ==
    /\ Handled({"updated"})
    /\ TheEntityCall.before = UpdateEntity(FALSE, Some(SHA_C), None)
    /\ Val(entityData).commit_sha = Some(SHA_A)
    /\ entity.pending_update

ExpectedError(call) ==
    LET o == call.outcome
    IN  IF call.fn = "validate_token" /\ call.token = <<>> THEN "invalid_token"
        ELSE IF o.raised THEN "network_error"
        ELSE IF o.status = 200 THEN "none"
        ELSE IF o.status = 401 THEN "invalid_token"
        ELSE IF o.status = 403
             THEN IF o.remaining \in {None, Some(<<"0">>)}
                  THEN "rate_limited" ELSE "insufficient_permissions"
        ELSE IF o.status = 404 /\ call.fn = "validate_repo_access" THEN "repo_not_found"
        ELSE "unknown"

\* C20: validate_token and validate_repo_access map the HTTP outcome to a
\* result: 200 valid, 401 invalid_token, 403 rate_limited when the
\* remaining header is "0" or absent and insufficient_permissions otherwise,
\* 404 repo_not_found for repo access, any other status unknown, a client
\* error network_error, an empty token given to validate_token
\* invalid_token without a request; a result is valid exactly when its
\* error is none.
C20_OutcomeMapping ==
    apiOut # None =>
        /\ Val(apiOut).result.error = ExpectedError(apiIn)
        /\ Val(apiOut).result.valid <=> Val(apiOut).result.error = "none"
        /\ Val(apiOut).requests =
               IF apiIn.fn = "validate_token" /\ apiIn.token = <<>> THEN 0 ELSE 1

C20_Witness ==
    /\ apiOut # None
    /\ apiIn.fn = "validate_token"
    /\ apiIn.token = TOKEN
    /\ apiIn.outcome = Response(403, Some(<<"42">>), Some(<<"octocat">>))
    /\ Val(apiOut).result.error = "insufficient_permissions"

(***************************************************************************)
(* Properties of the config flow, checked under SpecFlow.                  *)
(***************************************************************************)
FlowDone == flowLast # None
TheFlowCall == Val(flowLast)
Shows(step_id) == flow.type = "form" /\ flow.step_id = step_id
Submitted(step) == FlowDone /\ TheFlowCall.step = step /\ TheFlowCall.input # None
TheToken == strip(Val(TheFlowCall.input))
Accepted == validate_token(TheToken, TheFlowCall.outcome).result.valid

\* C18 (step order): the user step without input shows the user form; with
\* an empty token it shows the manual form; with a token that validate_token
\* accepts it shows the select_repo form; with a token that validate_token
\* rejects it shows the user form again with an error, and that call
\* creates no entry.
C18_StepOrder ==
    FlowDone /\ TheFlowCall.step = "user" =>
        /\ TheFlowCall.input = None => Shows("user") /\ flow.errors = {}
        /\ TheFlowCall.input # None /\ TheToken = <<>> => Shows("manual")
        /\ TheFlowCall.input # None /\ TheToken # <<>> /\ Accepted => Shows("select_repo")
        /\ TheFlowCall.input # None /\ TheToken # <<>> /\ ~Accepted =>
               Shows("user") /\ flow.errors # {} /\ flow.entry = None

\* C18 (as stated): moreover no entry of the flow carries a token that
\* validate_token rejected.
C18_NoEntryFromRejected ==
    /\ C18_StepOrder
    /\ flow.type = "create_entry" => Val(flow.entry).data.token \notin rejected

C18_Witness ==
    /\ Submitted("user")
    /\ TheToken = TOKEN
    /\ ~Accepted
    /\ Shows("user")
    /\ <<"token", "invalid_token">> \in flow.errors
    /\ rejected = {TOKEN}

TheInput == Val(TheFlowCall.input)
TheUrl == strip(TheInput.repository)
UrlGiven == TheUrl # <<>> /\ startswith(TheUrl, HTTPS)
SlugGiven == strip(TheInput.slug) # <<>> \/ parse_github_url(TheUrl) # None
AccessValid ==
    parse_github_url(TheUrl) # None =>
        validate_repo_access(<<>>, Val(parse_github_url(TheUrl))[1],
                             Val(parse_github_url(TheUrl))[2],
                             TheFlowCall.outcome).result.valid
ErrorOn(keys) == \E e \in flow.errors : e[1] \in keys

\* C19: async_step_manual creates an entry only when the URL is non-empty
\* and starts with https://, a slug is given or parse_github_url derives one,
\* and, for a URL that parse_github_url parses, validate_repo_access reports
\* valid; in every other case it shows the manual form with an error (on
\* repository for the URL and for a repository not found, on slug for a
\* missing slug, on token or base for the other validation failures) and
\* creates no entry.
C19_ManualGuard ==
    Submitted("manual") =>
        /\ flow.type = "create_entry" => UrlGiven /\ SlugGiven /\ AccessValid
        /\ ~(UrlGiven /\ SlugGiven /\ AccessValid) =>
               /\ Shows("manual")
               /\ flow.entry = None
               /\ ~UrlGiven => ErrorOn({"repository"})
               /\ ~SlugGiven => ErrorOn({"slug"})
               /\ UrlGiven /\ SlugGiven => ErrorOn({"repository", "token", "base"})

C19_Witness ==
    /\ Submitted("manual")
    /\ TheUrl = URL_HTTPS
    /\ strip(TheInput.slug) = <<>>
    /\ flow.type = "create_entry"
    /\ Val(flow.entry).data.slug = <<"repo">>

(***************************************************************************)
(* Properties of parse_github_url, checked under SpecUrl.                  *)
(***************************************************************************)
Supported == urlIn.prefix \in {GITHUB_HTTPS, GITHUB_SSH}

\* the suffixes the documented forms may carry: .git, and for https a slash
OptionalSuffixes(prefix) ==
    IF prefix = GITHUB_HTTPS THEN UrlSuffixes ELSE {<<>>, <<".git">>}

OwnerRepo == urlIn.path \in {<<"owner", "/", "repo">>, <<"BitBasherr", "/", "CustomEntity">>}

\* C21: parse_github_url returns (owner, repo) for https://github.com/owner/repo
\* and git@github.com:owner/repo, returns for a URL with a trailing .git (and,
\* for https, a trailing slash) what it returns without it, and returns None
\* for the empty string and for a URL of neither form.
C21_ParseGithubUrl ==
    urlOut # None =>
        /\ Supported /\ OwnerRepo /\ urlIn.suffix \in OptionalSuffixes(urlIn.prefix) =>
               Val(urlOut) = Some(<<<<urlIn.path[1]>>, <<urlIn.path[3]>>>>)
        /\ Supported /\ urlIn.suffix \in OptionalSuffixes(urlIn.prefix) =>
               Val(urlOut) = parse_github_url(Url([urlIn EXCEPT !.suffix = <<>>]))
        /\ Url(urlIn) = <<>> \/ ~Supported => Val(urlOut) = None

C21_Witness ==
    /\ urlOut # None
    /\ urlIn = UrlParts(<<>>, GITHUB_HTTPS, <<"owner", "/", "repo">>, <<".git", "/">>)
    /\ Val(urlOut) = Some(<<<<"owner">>, <<"repo">>>>)

(***************************************************************************)
(* Failures of a sync, checked under Spec.                                 *)
(***************************************************************************)
\* the lookup of the integration fails: git succeeded and the tree checked
\* out holds no integration
LookupFailed == TheCall.ops # <<>> /\ ~Failed(TheCall.ops) /\ ~HasIntegration(TheCall.tree)

\* the dict a coordinator update returns for the result of the call
DataOfCall == update_data(coord, stored, cfg, TheCall.result, clock).data

\* C22: a call in which clone, fetch, checkout, pull, the move aside or a
\* file copy raises, or in which no integration is found, returns a skipped
\* result with an error text and an error_type, and the coordinator update
\* that gets this result returns data with status skipped and that error.
C22_FailureSkipped ==
    Done /\ (Failed(TheCall.ops) \/ LookupFailed) =>
        /\ Status = "skipped"
        /\ ~TheCall.result.has_changes
        /\ TheCall.result.error # None
        /\ TheCall.result.error_type # None
        /\ DataOfCall.status = "skipped"
        /\ DataOfCall.error = TheCall.result.error

C22_Witness ==
    /\ Done
    /\ Failed(TheCall.ops)
    /\ TheCall.ops[Len(TheCall.ops)].op = "pull"
    /\ TheCall.result.error_type = Some("auth")
    /\ DataOfCall.status = "skipped"

\* C23: after a call that returns cloned or updated, the integration folder
\* under custom_components holds exactly the integration files of the commit
\* checked out, in the folder layout and in the flat layout.
C23_ExactFiles ==
    (Done /\ Status \in {"cloned", "updated"}) =>
        /\ InstalledName(TheCall.tree) \in DOMAIN dest
        /\ dest[InstalledName(TheCall.tree)] = InstalledFiles(TheCall.tree)

(***************************************************************************)
(* Updates without changes, checked under SpecUpdates.                     *)
(***************************************************************************)
\* C24: an update that receives a result with has_changes false (unchanged
\* or skipped) leaves last_changed and the stored entry data as they were;
\* the data returned carries the ISO text of the last_changed known before
\* when there is one, and no last_changed otherwise.
C24_NoChangeFrame ==
    Updated /\ ~TheResult.has_changes =>
        /\ TheResult.status \in {"unchanged", "skipped"}
        /\ coord.last_changed = coordLast.before.last_changed
        /\ stored = coordLast.before.stored
        /\ TheData.last_changed =
               IF coordLast.before.last_changed = None THEN None
               ELSE Some(isoformat(Val(coordLast.before.last_changed)))

C24_Witness ==
    /\ Updated
    /\ TheResult.status = "unchanged"
    /\ coordLast.before.last_changed = Some(0)
    /\ coordLast.now = THRESHOLD_1_DAY
    /\ TheData.last_changed = Some(isoformat(0))
    /\ stored = coordLast.before.stored

(***************************************************************************)
(* Properties of list_user_repos, checked under SpecRepos.                 *)
(***************************************************************************)
\* the request for page p is the last one: no 200 response, an empty page,
\* a page of fewer than per_page items, or page 10
Stops(p) ==
    LET o == pagesIn.pages[p]
    IN  o.raised \/ o.status # 200 \/ Len(o.data) < PER_PAGE \/ p = MAX_PAGES

LastPage == CHOOSE p \in 1..MAX_PAGES : Stops(p) /\ \A q \in 1..(p - 1) : ~Stops(q)

\* the repositories of the 200 responses among pages 1..n, in order
RECURSIVE Accumulated(_)
Accumulated(n) ==
    IF n = 0 THEN <<>>
    ELSE LET o == pagesIn.pages[n]
         IN  Accumulated(n - 1) \o (IF ~o.raised /\ o.status = 200 THEN o.data ELSE <<>>)

\* C25: list_user_repos sends at most 10 page requests: it stops at the
\* first response that is not 200, the first empty page, the first page of
\* fewer than 100 items, or after page 10, and returns the repositories
\* accumulated so far; for an empty token it returns the empty list without
\* a request.
C25_PagesBounded ==
    reposOut # None =>
        /\ Val(reposOut).requests <= MAX_PAGES
        /\ pagesIn.token = <<>> => Val(reposOut) = Answer(<<>>, 0)
        /\ pagesIn.token # <<>> => Val(reposOut) = Answer(Accumulated(LastPage), LastPage)

C25_Witness ==
    /\ reposOut # None
    /\ pagesIn.token = TOKEN
    /\ \A p \in 1..MAX_PAGES : Len(pagesIn.pages[p].data) = PER_PAGE
    /\ Val(reposOut).requests = MAX_PAGES
    /\ Len(Val(reposOut).result) = MAX_PAGES * PER_PAGE

(***************************************************************************)
(* Monotonicity of calculate_poll_interval, checked under SpecPoll.        *)
(***************************************************************************)
\* C26: for every base interval of 1 to 60 minutes, the interval returned
\* for a last change never decreases as the time since that change grows.
C26_Monotone ==
    pollOut # None /\ pollLast # None =>
        \A later \in Instants :
            later >= Val(pollOut).now =>
                calculate_poll_interval(pollLast, pollBase, later) >= Val(pollOut).interval

(***************************************************************************)
(* The token and the error text of a result, checked under Spec.           *)
(***************************************************************************)
OTHER_TOKEN == <<"ghp_other">>

WithToken(c, token) == [c EXCEPT !.token = Some(token)]

\* the result of a call made now with the given token
ResultWith(token, o) ==
    sync_repo_detailed(staging, dest, upstream, WithToken(cfg, token), o).result

Mentions(text, token) == \E i \in 1..Len(text) : text[i] = token[1]

UpdateEnded == coordLast.result # None

\* C28: whether a sync is run by a scheduled refresh, a refresh request or
\* the reload_repos service, the data made from its result is the
\* coordinator's data when the update has ended, so a cloned or updated
\* result is what the entities read.
C28_ResultVisible == UpdateEnded => coord.data = coordLast.data

(***************************************************************************)
(* The pending update of the entity, checked under SpecEntity.             *)
(***************************************************************************)
ShortOf(sha) == IF sha = None THEN None ELSE Some(Short(Val(sha)))

\* C29: while an update is pending, latest_version is the short SHA of the
\* most recent cloned or updated commit the coordinator reported and
\* differs from installed_version; a pending flag stays set over every
\* coordinator update and is cleared only by async_install.
C29_PendingInvariant ==
    /\ entity.pending_update =>
          /\ latest_version(entity, entityData) = ShortOf(Reported)
          /\ latest_version(entity, entityData) # installed_version(entity, entityData)
    /\ EntityDone /\ TheEntityCall.before.pending_update /\ TheEntityCall.op # "install"
          => entity.pending_update

(***************************************************************************)
(* SpecEntries: several config entries of the domain.  Each entry is       *)
(* created by the manual step of a flow, has its own repository and its    *)
(* own staging clone, and installs into the one custom_components folder.  *)
(* The coordinator of each entry hands sync_repo_detailed to the executor  *)
(* on its own, so jobs of different entries overlap: a job is two steps,   *)
(* its start, where the paths it works on are fixed, and its end, where    *)
(* what it wrote is in place.                                              *)
(***************************************************************************)
MaxRepos == 2

SLUG_OTHER == <<"testrepo">>

URL_OTHER == <<"https:", "/", "/", "github.com", "/", "owner", "/", "testrepo", ".git">>

EntryInputs ==
    {ManualInput(repo_url, slug, <<>>, Some(TOKEN), POLL_INPUT) :
        repo_url \in {URL_HTTPS, URL_OTHER}, slug \in {<<>>, SLUG, SLUG_OTHER}}

EntryOutcomes == {Response(st, Some(<<"42">>), Some(<<"octocat">>)) : st \in {200, 404}}

EntryTrees == {TREE_STD, TREE_OTHER, TREE_FLAT_LESS}

EntryOracles ==
    {Oracle(p, FALSE, <<"Some random error">>, SLUG) : p \in {"none", "clone"}}

RepoEntry(c, tree, st, job) == [cfg |-> c, tree |-> tree, staging |-> st, job |-> job]

STAGING_DIR_NAME == ".private_repo_loader"

\* _get_staging_path: <config>/.private_repo_loader/<slug>
_get_staging_path(slug) == <<STAGING_DIR_NAME>> \o slug

\* dest = root / integration_name
install_path(name) == <<"custom_components">> \o name

\* the folder a call for config c installs the integration of `tree` in
integration_name(tree, c, first) ==
    LET src == _find_integration_in_repo(tree, SlugOf(c), first)
    IN  IF src.kind = "root" THEN SlugOf(c) ELSE src.name

Copies(ops) == \E k \in 1..Len(ops) : ops[k].op = "copy"

\* the paths a call writes: its staging clone once it gets to git, and the
\* integration folder when it copies
paths_written(en, out, first) ==
    (IF out.ops # <<>> THEN {_get_staging_path(SlugOf(en.cfg))} ELSE {})
    \cup (IF Copies(out.ops)
          THEN {install_path(integration_name(out.staging.head.tree, en.cfg, first))}
          ELSE {})

Job(out, paths, name) == [out |-> out, paths |-> paths, name |-> name]

InitEntries ==
    /\ repoEntries = <<>>
    /\ components = NoFolders
    /\ FlowIdle
    /\ UrlIdle
    /\ ReposIdle
    /\ HostIdle
    /\ EntityIdle
    /\ ApiIdle
    /\ SyncIdle
    /\ PollIdle
    /\ ParseIdle
    /\ CoordIdle

\* the content of the repository at a URL is the same for every entry
SameRepository(repo_url, tree) ==
    \A k \in 1..Len(repoEntries) :
        repoEntries[k].cfg.repository = Some(repo_url) => repoEntries[k].tree = tree

\* a flow's manual step is submitted; an entry it creates is set up for the
\* repository at its URL
AddRepoEntry ==
    /\ Len(repoEntries) < MaxRepos
    /\ \E user_input \in EntryInputs, o \in EntryOutcomes, tree \in EntryTrees :
        \E f \in {async_step_manual(FlowHandler, Some(user_input), o, uniqueIds)} :
          /\ SameRepository(user_input.repository, tree)
          /\ flow' = f
          /\ flowLast' = Some(FlowCall("manual", Some(user_input), o))
          /\ IF f.type = "create_entry"
             THEN LET data == Val(f.entry).data
                  IN  /\ uniqueIds' = uniqueIds \cup {Val(f.entry).unique_id}
                      /\ repoEntries' =
                             Append(repoEntries,
                                    RepoEntry(Config(Some(data.repository), Some(data.slug),
                                                     Some(data.token)),
                                              tree, ABSENT, None))
             ELSE UNCHANGED <<uniqueIds, repoEntries>>
    /\ UNCHANGED <<components, rejected, urlVars, reposVars, hostVars, entityVars, apiVars,
                   syncVars, pollVars, parseVars, coordVars>>

\* the coordinator of entry i hands sync_repo_detailed to the executor
StartSync ==
  \E i \in 1..Len(repoEntries) :
    /\ repoEntries[i].job = None
    /\ \E o \in EntryOracles :
        \E out \in {sync_repo_detailed(repoEntries[i].staging, components,
                                       Commit(1, repoEntries[i].tree),
                                       repoEntries[i].cfg, o)} :
          repoEntries' =
              [repoEntries EXCEPT ![i].job =
                  Some(Job(out, paths_written(repoEntries[i], out, o.first),
                           integration_name(repoEntries[i].tree, repoEntries[i].cfg,
                                            o.first)))]
    /\ UNCHANGED <<components, flowVars, urlVars, reposVars, hostVars, entityVars, apiVars,
                   syncVars, pollVars, parseVars, coordVars>>

\* the job of entry i returns: its clone and the folder it copied are in place
FinishSync ==
  \E i \in 1..Len(repoEntries) :
    /\ repoEntries[i].job # None
    /\ LET job == Val(repoEntries[i].job)
       IN  /\ repoEntries' = [repoEntries EXCEPT ![i].staging = job.out.staging,
                                                 ![i].job = None]
           /\ components' =
                  IF ~Copies(job.out.ops) THEN components
                  ELSE IF job.name \in DOMAIN job.out.dest
                       THEN With(components, job.name, job.out.dest[job.name])
                       ELSE Without(components, job.name)
    /\ UNCHANGED <<flowVars, urlVars, reposVars, hostVars, entityVars, apiVars,
                   syncVars, pollVars, parseVars, coordVars>>

NextEntries == AddRepoEntry \/ StartSync \/ FinishSync

SpecEntries == InitEntries /\ [][NextEntries]_vars

(***************************************************************************)
(* The folders of different entries, checked under SpecEntries.            *)
(***************************************************************************)
EntryPairs ==
    {pair \in (1..Len(repoEntries)) \X (1..Len(repoEntries)) : pair[1] # pair[2]}

InProgressPaths(i) ==
    IF repoEntries[i].job = None THEN {} ELSE Val(repoEntries[i].job).paths

\* C30: no two entries have the same slug, two entries use distinct staging
\* paths, and jobs of different entries that are in progress together write
\* no path in common.
C30_DistinctFolders ==
    \A pair \in EntryPairs :
        /\ SlugOf(repoEntries[pair[1]].cfg) # SlugOf(repoEntries[pair[2]].cfg)
        /\ _get_staging_path(SlugOf(repoEntries[pair[1]].cfg))
               # _get_staging_path(SlugOf(repoEntries[pair[2]].cfg))
        /\ InProgressPaths(pair[1]) \cap InProgressPaths(pair[2]) = {}

====
